---- MODULE Spec2Model ----
(***************************************************************************)
(* ChemBalance: the formula parser (lib/chem/parser.ts) and the exact      *)
(* rational equation solver (lib/chem/solver.ts).                           *)
(*                                                                         *)
(* A formula is a sequence of one-character strings.  An element symbol is *)
(* a sequence of one or two characters.  An ElementCount (a JS Map or      *)
(* Record) is a function from symbols to integers.  A call's outcome is a  *)
(* record whose kind says whether it returned a value, returned undefined  *)
(* or raised.                                                               *)
(***************************************************************************)
EXTENDS Integers, Sequences, FiniteSets

VARIABLES formula, counts, left, right, outcome, records, scale, frames, ui

vars == <<formula, counts, left, right, outcome, records, scale, frames, ui>>

(* no component is mounted *)
NoUI == [mounted |-> FALSE]

----------------------------------------------------------------------------
(* Bounds of the model *)

MaxLen == 4

MaxSpecies == 3

MaxText == 4

MaxRecords == 3

MaxScale == 3

MaxStepLen == 4

MaxBasis == 2

MaxFrac == 3

MaxCoeff == 2

MaxInsertLen == 7

----------------------------------------------------------------------------
(* Characters *)

UpperChars ==
  <<"A","B","C","D","E","F","G","H","I","J","K","L","M",
    "N","O","P","Q","R","S","T","U","V","W","X","Y","Z">>

LowerChars ==
  <<"a","b","c","d","e","f","g","h","i","j","k","l","m",
    "n","o","p","q","r","s","t","u","v","w","x","y","z">>

DigitChars == <<"0","1","2","3","4","5","6","7","8","9">>

SeqRange(s) == {s[i] : i \in 1..Len(s)}

UpperSet == SeqRange(UpperChars)

LowerSet == SeqRange(LowerChars)

DigitSet == SeqRange(DigitChars)

WhitespaceSet == {" ", "\t", "\n"}

DotSet == {"·", "."}

OpenerSet == {"(", "[", "{"}

CloserSet == {")", "]", "}"}

ParenSet == OpenerSet \cup CloserSet

DigitVal(c) == (CHOOSE i \in 1..Len(DigitChars) : DigitChars[i] = c) - 1

RECURSIVE parseInt(_)
parseInt(ds) ==
  IF ds = <<>> THEN 0
  ELSE 10 * parseInt(SubSeq(ds, 1, Len(ds) - 1)) + DigitVal(ds[Len(ds)])

----------------------------------------------------------------------------
(* normalizeArrow, splitEquation, parseSpecies.  A string is a sequence of  *)
(* one-character strings.                                                   *)

ArrowChars == {"⇌", "⟷", "⇒", "→"}

Arrow == <<"-", ">">>

(* the index after the run of character c that starts at index j *)
RECURSIVE RunEnd(_,_,_)
RunEnd(s, j, c) == IF j <= Len(s) /\ s[j] = c THEN RunEnd(s, j + 1, c) ELSE j

At(s, j) == IF j >= 1 /\ j <= Len(s) THEN s[j] ELSE ""

(* c+> at index i: the length of the match, or 0 *)
RunThenGt(s, i, c) ==
  IF RunEnd(s, i, c) > i /\ At(s, RunEnd(s, i, c)) = ">" THEN RunEnd(s, i, c) - i + 1 ELSE 0

(* faulty variant of MatchLen: a dash or equals run is matched only when it is one character long *)
MatchLenSingle(s, i) ==
  IF s[i] \in ArrowChars THEN 1
  ELSE IF s[i] = "<" /\ At(s, i + 1) \in {"=", "-"} /\ At(s, i + 2) = ">" THEN 3
  ELSE IF s[i] \in {"=", "-"} /\ At(s, i + 1) = ">" THEN 2
  ELSE 0

(* the length of the match of /⇌|<=>|⟷|⇒|→|<-+>|=+>|-+>/ at index i, or 0 *)
MatchLen(s, i) ==
  IF s[i] \in ArrowChars THEN 1
  ELSE IF s[i] = "<" /\ At(s, i + 1) = "=" /\ At(s, i + 2) = ">" THEN 3
  ELSE IF s[i] = "<" /\ RunThenGt(s, i + 1, "-") > 0 THEN 1 + RunThenGt(s, i + 1, "-")
  ELSE IF s[i] = "=" THEN RunThenGt(s, i, "=")
  ELSE IF s[i] = "-" THEN RunThenGt(s, i, "-")
  ELSE 0

RECURSIVE normalizeFrom(_,_,_)
normalizeFrom(s, i, out) ==
  IF i > Len(s) THEN out
  ELSE IF MatchLen(s, i) > 0 THEN normalizeFrom(s, i + MatchLen(s, i), out \o Arrow)
  ELSE normalizeFrom(s, i + 1, Append(out, s[i]))

normalizeArrow(s) == normalizeFrom(s, 1, <<>>)

StartsAt(s, i, sep) ==
  i + Len(sep) - 1 <= Len(s) /\ SubSeq(s, i, i + Len(sep) - 1) = sep

(* s.split(sep) for a non-empty separator; from: the start of the current part *)
RECURSIVE SplitFrom(_,_,_,_,_)
SplitFrom(s, sep, from, i, parts) ==
  IF i > Len(s) THEN Append(parts, SubSeq(s, from, Len(s)))
  ELSE IF StartsAt(s, i, sep)
    THEN SplitFrom(s, sep, i + Len(sep), i + Len(sep), Append(parts, SubSeq(s, from, i - 1)))
  ELSE SplitFrom(s, sep, from, i + 1, parts)

Split(s, sep) == SplitFrom(s, sep, 1, 1, <<>>)

RECURSIVE TrimStart(_)
TrimStart(s) == IF s # <<>> /\ Head(s) \in WhitespaceSet THEN TrimStart(Tail(s)) ELSE s

RECURSIVE TrimEnd(_)
TrimEnd(s) ==
  IF s # <<>> /\ s[Len(s)] \in WhitespaceSet THEN TrimEnd(SubSeq(s, 1, Len(s) - 1)) ELSE s

Trim(s) == TrimEnd(TrimStart(s))

MapTrim(chunks) == [i \in 1..Len(chunks) |-> Trim(chunks[i])]

(* faulty variant of FilterNonEmpty: empty chunks are kept *)
FilterNothing(chunks) == chunks

(* .filter(Boolean) *)
FilterNonEmpty(chunks) == SelectSeq(chunks, LAMBDA c : c # <<>>)

(* lhs.split("+").map((s) => s.trim()).filter(Boolean) *)
SideChunks(side) == FilterNonEmpty(MapTrim(Split(side, <<"+">>)))

NoEquation == [isNull |-> TRUE, left |-> <<>>, right |-> <<>>]

(* faulty variant of PartsOfEquation: only the absence of an arrow is refused *)
PartsAtLeastTwo(parts) ==
  IF Len(parts) < 2 THEN NoEquation
  ELSE [isNull |-> FALSE, left |-> SideChunks(parts[1]), right |-> SideChunks(parts[2])]

PartsOfEquation(parts) ==
  IF Len(parts) # 2 THEN NoEquation
  ELSE [isNull |-> FALSE, left |-> SideChunks(parts[1]), right |-> SideChunks(parts[2])]

splitEquation(eqn) == PartsOfEquation(Split(normalizeArrow(eqn), Arrow))

(* the characters that "." does not match *)
LineTerminators == {"\n"}

(* raw.match of line 18 (leading whitespace, digits, whitespace, then any   *)
(* characters but line terminators up to the end): ws is the index after    *)
(* the leading whitespace, de the index after the digits, re the index      *)
(* after the whitespace that follows them                                   *)
SpeciesOfMatch(raw, ws, de, re) ==
  IF de > ws /\ \A j \in re..Len(raw) : raw[j] \notin LineTerminators
    THEN [coeff |-> parseInt(SubSeq(raw, ws, de - 1)),
          formula |-> Trim(SubSeq(raw, re, Len(raw)))]
  ELSE [coeff |-> 1, formula |-> Trim(raw)]

RECURSIVE SetRunEnd(_,_,_)
SetRunEnd(s, j, S) == IF j <= Len(s) /\ s[j] \in S THEN SetRunEnd(s, j + 1, S) ELSE j

SpeciesAfterDigits(raw, ws, de) ==
  SpeciesOfMatch(raw, ws, de, SetRunEnd(raw, de, WhitespaceSet))

SpeciesAfterSpace(raw, ws) == SpeciesAfterDigits(raw, ws, SetRunEnd(raw, ws, DigitSet))

parseSpecies(raw) == SpeciesAfterSpace(raw, SetRunEnd(raw, 1, WhitespaceSet))

----------------------------------------------------------------------------
(* tokenizeFormula *)

DotToken == [type |-> "dot", value |-> "", symbol |-> <<>>, count |-> 0]

ParenToken(c) == [type |-> "paren", value |-> c, symbol |-> <<>>, count |-> 0]

ElemToken(sym, n) == [type |-> "elem", value |-> "", symbol |-> sym, count |-> n]

NumToken(n) == [type |-> "num", value |-> "", symbol |-> <<>>, count |-> n]

(* faulty variant of StripWhitespace: only a leading whitespace character is removed *)
StripLeading(s) == IF s # <<>> /\ Head(s) \in WhitespaceSet THEN Tail(s) ELSE s

(* formula.replace(/\s+/g, "") *)
StripWhitespace(s) == SelectSeq(s, LAMBDA c : c \notin WhitespaceSet)

(* faulty variant of DigitRunEnd: a single digit is taken, not the run *)
DigitRunSingle(s, j) == IF j <= Len(s) /\ s[j] \in DigitSet THEN j + 1 ELSE j

RECURSIVE DigitRunEnd(_,_)
DigitRunEnd(s, j) ==
  IF j <= Len(s) /\ s[j] \in DigitSet THEN DigitRunEnd(s, j + 1) ELSE j

RECURSIVE tokenizeFrom(_,_,_)
tokenizeFrom(s, i, tokens) ==
  IF i > Len(s) THEN tokens
  ELSE LET c == s[i] IN
    IF c \in DotSet THEN tokenizeFrom(s, i + 1, Append(tokens, DotToken))
    ELSE IF c \in ParenSet
      THEN tokenizeFrom(s, i + 1, Append(tokens, ParenToken(c)))
    ELSE IF c \in UpperSet THEN
      LET two == i + 1 <= Len(s) /\ s[i + 1] \in LowerSet
          sym == IF two THEN <<c, s[i + 1]>> ELSE <<c>>
          i2  == IF two THEN i + 2 ELSE i + 1
          j   == DigitRunEnd(s, i2)
          num == IF j > i2 THEN parseInt(SubSeq(s, i2, j - 1)) ELSE 1
      IN tokenizeFrom(s, j, Append(tokens, ElemToken(sym, num)))
    ELSE IF c \in DigitSet THEN
      LET j == DigitRunEnd(s, i)
      IN tokenizeFrom(s, j, Append(tokens, NumToken(parseInt(SubSeq(s, i, j - 1)))))
    ELSE tokenizeFrom(s, i + 1, tokens)

tokenizeFormula(f) == tokenizeFrom(StripWhitespace(f), 1, <<>>)

----------------------------------------------------------------------------
(* tokensToCounts *)

EmptyMap == [k \in {} |-> 0]

Get(m, k) == IF k \in DOMAIN m THEN m[k] ELSE 0

pushCounts(into, elem, n) ==
  [k \in DOMAIN into \cup {elem} |-> IF k = elem THEN Get(into, elem) + n ELSE into[k]]

(* faulty variant of MergeScaled: the multiplier is dropped *)
MergeUnscaled(top, group, mult) ==
  [k \in DOMAIN top \cup DOMAIN group |->
     IF k \in DOMAIN group THEN Get(top, k) + group[k] ELSE top[k]]

(* for (const [k, val] of group.entries()) pushCounts(top, k, val * mult) *)
MergeScaled(top, group, mult) ==
  [k \in DOMAIN top \cup DOMAIN group |->
     IF k \in DOMAIN group THEN Get(top, k) + group[k] * mult ELSE top[k]]

Value(m) == [kind |-> "value", map |-> m]

Undefined == [kind |-> "undefined", map |-> EmptyMap]

TypeError == [kind |-> "throw", map |-> EmptyMap]

IsOpener(t) == t.type = "paren" /\ t.value \in OpenerSet

IsCloser(t) == t.type = "paren" /\ t.value \in CloserSet

(* the scan of lines 108-115: j is 1-based; the result is the 1-based index  *)
(* one past the depth-matched closer, or Len(tokens) + 1                    *)
(* faulty variant of FindGroupEnd: the scan stops after the first closer, whatever the depth *)
RECURSIVE FindFirstCloser(_,_,_)
FindFirstCloser(tokens, j, depth) ==
  IF j > Len(tokens) THEN j
  ELSE IF IsCloser(tokens[j]) THEN j + 1
  ELSE FindFirstCloser(tokens, j + 1, depth)

RECURSIVE FindGroupEnd(_,_,_)
FindGroupEnd(tokens, j, depth) ==
  IF j > Len(tokens) THEN j
  ELSE IF IsOpener(tokens[j]) THEN FindGroupEnd(tokens, j + 1, depth + 1)
  ELSE IF IsCloser(tokens[j]) THEN
    IF depth - 1 = 0 THEN j + 1 ELSE FindGroupEnd(tokens, j + 1, depth - 1)
  ELSE FindGroupEnd(tokens, j + 1, depth)

(* return stack[0] *)
StackRoot(stack) == IF stack = <<>> THEN Undefined ELSE Value(stack[1])

(* merging the counts of a sub-call into stack.at(-1): the stack after, or  *)
(* <<"throw">> when sub.entries() or pushCounts(undefined, ...) raises      *)
Popped(stack) == SubSeq(stack, 1, Len(stack) - 1)

RECURSIVE tokensToCounts(_), countLoop(_,_,_,_), mergeSub(_,_,_,_,_,_)

(* faulty variant of mergeSub: the sub-call's counts are merged once, not N times *)
mergeSubOnce(tokens, sub, N, stack, parenStack, ni) ==
  IF sub.kind # "value" THEN TypeError
  ELSE IF stack = <<>> THEN
    IF DOMAIN sub.map = {}
      THEN (IF ni = 0 THEN StackRoot(stack) ELSE countLoop(tokens, ni, stack, parenStack))
      ELSE TypeError
  ELSE LET st == [stack EXCEPT ![Len(stack)] = MergeScaled(@, sub.map, 1)]
       IN IF ni = 0 THEN StackRoot(st) ELSE countLoop(tokens, ni, st, parenStack)

(* the state after "const sub = ...; for (... of sub.entries()) pushCounts" *)
(* followed by `after`: "break" returns stack[0], "continue" resumes at ni  *)
mergeSub(tokens, sub, N, stack, parenStack, ni) ==
  IF sub.kind # "value" THEN TypeError
  ELSE IF stack = <<>> THEN
    IF DOMAIN sub.map = {}
      THEN (IF ni = 0 THEN StackRoot(stack) ELSE countLoop(tokens, ni, stack, parenStack))
      ELSE TypeError
  ELSE LET st == [stack EXCEPT ![Len(stack)] = MergeScaled(@, sub.map, N)]
       IN IF ni = 0 THEN StackRoot(st) ELSE countLoop(tokens, ni, st, parenStack)

countLoop(tokens, i, stack, parenStack) ==
  IF i > Len(tokens) THEN StackRoot(stack)
  ELSE LET t == tokens[i]
           hasNxt == i + 1 <= Len(tokens)
       IN
    IF t.type = "elem" THEN
      IF stack = <<>> THEN TypeError
      ELSE countLoop(tokens, i + 1,
             [stack EXCEPT ![Len(stack)] = pushCounts(@, t.symbol, t.count)],
             parenStack)
    ELSE IF t.type = "paren" THEN
      IF t.value \in OpenerSet THEN
        countLoop(tokens, i + 1, Append(stack, EmptyMap), Append(parenStack, t.value))
      ELSE IF t.value \in CloserSet THEN
        LET ps == IF parenStack = <<>> THEN parenStack ELSE Popped(parenStack)
            hasMult == hasNxt /\ tokens[i + 1].type = "num"
            mult == IF hasMult THEN tokens[i + 1].count ELSE 1
            ni == IF hasMult THEN i + 2 ELSE i + 1
        IN IF stack = <<>> THEN TypeError
           ELSE LET group == stack[Len(stack)]
                    rest == Popped(stack)
                IN IF rest = <<>> THEN
                     IF DOMAIN group = {} THEN countLoop(tokens, ni, rest, ps)
                     ELSE TypeError
                   ELSE countLoop(tokens, ni,
                          [rest EXCEPT ![Len(rest)] = MergeScaled(@, group, mult)], ps)
      ELSE countLoop(tokens, i + 1, stack, parenStack)
    ELSE IF t.type = "dot" THEN
      IF hasNxt /\ tokens[i + 1].type = "num" THEN
        mergeSub(tokens, tokensToCounts(SubSeq(tokens, i + 2, Len(tokens))),
                 tokens[i + 1].count, stack, parenStack, 0)
      ELSE countLoop(tokens, i + 1, stack, parenStack)
    ELSE IF t.type = "num" THEN
      IF ~hasNxt THEN countLoop(tokens, i + 1, stack, parenStack)
      ELSE IF tokens[i + 1].type = "elem" THEN
        IF stack = <<>> THEN TypeError
        ELSE countLoop(tokens, i + 2,
               [stack EXCEPT ![Len(stack)] =
                  pushCounts(@, tokens[i + 1].symbol, tokens[i + 1].count * t.count)],
               parenStack)
      ELSE IF IsOpener(tokens[i + 1]) THEN
        LET j == FindGroupEnd(tokens, i + 1, 0)
        IN mergeSub(tokens, tokensToCounts(SubSeq(tokens, i + 1, j - 1)),
                    t.count, stack, parenStack, j)
      ELSE countLoop(tokens, i + 1, stack, parenStack)
    ELSE countLoop(tokens, i + 1, stack, parenStack)

tokensToCounts(tokens) == countLoop(tokens, 1, <<EmptyMap>>, <<>>)

(* counts.entries() raises on undefined; the sort changes the key order only *)
countElementsInFormula(f) ==
  LET c == tokensToCounts(tokenizeFormula(f))
  IN IF c.kind = "value" THEN c ELSE TypeError

----------------------------------------------------------------------------
(* multiplyCounts, sumCounts, mergeElements *)

(* faulty variant of multiplyCounts: entries that become 0 are left out *)
multiplyCountsNonZero(c, k) == [el \in {e \in DOMAIN c : c[e] * k # 0} |-> c[el] * k]

multiplyCounts(c, k) == [el \in DOMAIN c |-> c[el] * k]

(* faulty variant of AddRecord: out.set(el, n) *)
SetRecord(out, obj) ==
  [el \in DOMAIN out \cup DOMAIN obj |-> IF el \in DOMAIN obj THEN obj[el] ELSE out[el]]

(* for (const [el, n] of Object.entries(obj)) out.set(el, (out.get(el) || 0) + n) *)
AddRecord(out, obj) ==
  [el \in DOMAIN out \cup DOMAIN obj |->
     IF el \in DOMAIN obj THEN Get(out, el) + obj[el] ELSE out[el]]

RECURSIVE sumFrom(_,_,_)
sumFrom(list, i, out) ==
  IF i > Len(list) THEN out ELSE sumFrom(list, i + 1, AddRecord(out, list[i]))

sumCounts(list) == sumFrom(list, 1, EmptyMap)

----------------------------------------------------------------------------
(* Sums and products over finite sets *)

RECURSIVE SumOf(_,_)
SumOf(S, f) ==
  IF S = {} THEN 0
  ELSE LET x == CHOOSE y \in S : TRUE IN f[x] + SumOf(S \ {x}, f)

RECURSIVE ProdOf(_,_)
ProdOf(S, f) ==
  IF S = {} THEN 1
  ELSE LET x == CHOOSE y \in S : TRUE IN f[x] * ProdOf(S \ {x}, f)

----------------------------------------------------------------------------
(* buildElementMatrix *)

AlphaRank(c) ==
  IF c \in UpperSet THEN CHOOSE i \in 1..Len(UpperChars) : UpperChars[i] = c
  ELSE CHOOSE i \in 1..Len(LowerChars) : LowerChars[i] = c

(* a.localeCompare(b) < 0 for element symbols *)
RECURSIVE SymLess(_,_)
SymLess(a, b) ==
  IF a = <<>> THEN b # <<>>
  ELSE IF b = <<>> THEN FALSE
  ELSE IF AlphaRank(a[1]) # AlphaRank(b[1]) THEN AlphaRank(a[1]) < AlphaRank(b[1])
  ELSE SymLess(Tail(a), Tail(b))

LeastSymbol(S) == CHOOSE x \in S : \A y \in S : x = y \/ SymLess(x, y)

RECURSIVE SortFrom(_,_)
SortFrom(S, m) == IF S = {m} THEN <<m>> ELSE <<m>> \o SortFrom(S \ {m}, LeastSymbol(S \ {m}))

SortSymbols(S) == IF S = {} THEN <<>> ELSE SortFrom(S, LeastSymbol(S))

(* countFn is countElementsInFormula; the species here never make it raise. *)
(* It is a pure function: the two calls the code makes per formula (for the *)
(* keys, then for the column) return the same mapping.                      *)
countFn(f) == countElementsInFormula(f).map

(* faulty variant of ElementMatrix: the right columns are not negated *)
ElementMatrixUnsigned(lc, rc, elements) ==
  [A |-> [i \in 1..Len(elements) |->
            [j \in 1..(Len(lc) + Len(rc)) |->
               IF j <= Len(lc) THEN Get(lc[j], elements[i])
               ELSE Get(rc[j - Len(lc)], elements[i])]],
   elements |-> elements]

(* lc, rc: the counts of the left and right formulas; elements: the rows *)
ElementMatrix(lc, rc, elements) ==
  [A |-> [i \in 1..Len(elements) |->
            [j \in 1..(Len(lc) + Len(rc)) |->
               IF j <= Len(lc) THEN Get(lc[j], elements[i])
               ELSE -Get(rc[j - Len(lc)], elements[i])]],
   elements |-> elements]

MatrixFromCounts(lc, rc) ==
  ElementMatrix(lc, rc,
    SortSymbols(UNION ({DOMAIN lc[j] : j \in 1..Len(lc)} \cup {DOMAIN rc[k] : k \in 1..Len(rc)})))

buildElementMatrix(leftFormulas, rightFormulas) ==
  MatrixFromCounts([j \in 1..Len(leftFormulas) |-> countFn(leftFormulas[j])],
                   [k \in 1..Len(rightFormulas) |-> countFn(rightFormulas[k])])

----------------------------------------------------------------------------
(* Exact rational arithmetic.  makeFrac's "Zero denominator" error is the  *)
(* value ZeroDenominator, recognised by den = 0; every operation on it      *)
(* yields it again.                                                         *)

Abs(a) == IF a < 0 THEN -a ELSE a

RECURSIVE gcdLoop(_,_)
gcdLoop(a, b) == IF b # 0 THEN gcdLoop(b, a % b) ELSE a

(* a || 1 *)
OrOne(a) == IF a # 0 THEN a ELSE 1

gcd(a, b) == OrOne(gcdLoop(Abs(a), Abs(b)))

(* faulty variant of lcm: the product, not divided by the gcd *)
lcmProduct(a, b) == a * b

lcm(a, b) == (a \div gcd(a, b)) * b

ZeroDenominator == [num |-> 0, den |-> 0]

DivideBoth(num, den, g) == [num |-> num \div g, den |-> den \div g]

(* faulty variant of Reduced: the fraction is not divided by the gcd *)
Unreduced(num, den) == [num |-> num, den |-> den]

(* makeFrac once den > 0 *)
Reduced(num, den) ==
  IF num = 0 THEN [num |-> 0, den |-> 1] ELSE DivideBoth(num, den, gcd(num, den))

makeFrac(num, den) ==
  IF den = 0 THEN ZeroDenominator
  ELSE IF den < 0 THEN Reduced(-num, -den)
  ELSE Reduced(num, den)

fAdd(a, b) == makeFrac(a.num * b.den + b.num * a.den, a.den * b.den)

fSub(a, b) == makeFrac(a.num * b.den - b.num * a.den, a.den * b.den)

fMul(a, b) == makeFrac(a.num * b.num, a.den * b.den)

fDiv(a, b) == makeFrac(a.num * b.den, a.den * b.num)

----------------------------------------------------------------------------
(* solveRationalForLastColumn.  The loop state is                           *)
(* st = [B, b, row, pivotRowForCol, raised]; rows and columns count from 1, *)
(* and pivotRowForCol holds 0 where the code holds -1.                      *)

(* faulty variant of FindPivot: the current row is taken unsearched *)
FindPivotNoSearch(B, col, pivot, m) == pivot

(* while (pivot < m && B[pivot][col].num === 0) pivot++; the result is      *)
(* m + 1 when no row from `row` on has a non-zero entry in the column       *)
RECURSIVE FindPivot(_,_,_,_)
FindPivot(B, col, pivot, m) ==
  IF pivot <= m /\ B[pivot][col].num = 0 THEN FindPivot(B, col, pivot + 1, m) ELSE pivot

SwapRows(M, r1, r2) == [M EXCEPT ![r1] = M[r2], ![r2] = M[r1]]

(* normalize pivot row so pivot == 1 *)
NormalizedRow(brow, col, piv) ==
  [j \in 1..Len(brow) |-> IF j >= col THEN fDiv(brow[j], piv) ELSE brow[j]]

(* eliminate in other rows *)
EliminatedRow(brow, col, factor, prow) ==
  IF factor.num = 0 THEN brow
  ELSE [j \in 1..Len(brow) |-> IF j >= col THEN fSub(brow[j], fMul(factor, prow[j])) ELSE brow[j]]

EliminatedRhs(br, factor, pb) ==
  IF factor.num = 0 THEN br ELSE fSub(br, fMul(factor, pb))

(* a makeFrac call of the iteration had a zero denominator *)
HasZeroDenominator(B, b) ==
  \/ \E r \in 1..Len(b) : b[r].den = 0
  \/ \E r \in 1..Len(B) : \E j \in 1..Len(B[r]) : B[r][j].den = 0

AfterColumn(B2, b2, st, col) ==
  [B |-> B2, b |-> b2, row |-> st.row + 1,
   pivotRowForCol |-> [st.pivotRowForCol EXCEPT ![col] = st.row],
   raised |-> HasZeroDenominator(B2, b2)]

(* B1, b1: after the swap; prow, pb: the normalized pivot row *)
EliminateOthers(B1, b1, prow, pb, st, col) ==
  AfterColumn(
    [r \in 1..Len(B1) |->
       IF r = st.row THEN prow ELSE EliminatedRow(B1[r], col, B1[r][col], prow)],
    [r \in 1..Len(b1) |->
       IF r = st.row THEN pb ELSE EliminatedRhs(b1[r], B1[r][col], pb)],
    st, col)

NormalizePivot(B1, b1, st, col) ==
  EliminateOthers(B1, b1,
    NormalizedRow(B1[st.row], col, B1[st.row][col]),
    fDiv(b1[st.row], B1[st.row][col]),
    st, col)

WithPivot(st, col, m, pivot) ==
  IF pivot = m + 1 THEN st
  ELSE NormalizePivot(SwapRows(st.B, pivot, st.row), SwapRows(st.b, pivot, st.row), st, col)

(* one iteration of the column loop *)
EliminateColumn(st, col, m) ==
  IF st.raised \/ st.row > m THEN st
  ELSE WithPivot(st, col, m, FindPivot(st.B, col, st.row, m))

RECURSIVE EliminateFrom(_,_,_,_)
EliminateFrom(st, col, m, nvars) ==
  IF col > nvars THEN st
  ELSE EliminateFrom(EliminateColumn(st, col, m), col + 1, m, nvars)

NoVector == [kind |-> "null", x |-> <<>>]

(* A[0]?.length ?? 0 *)
NumCols(A) == IF Len(A) = 0 THEN 0 ELSE Len(A[1])

(* B x' = b  where B = first n-1 columns, b = -last column *)
InitialSystem(A, n) ==
  [B |-> [i \in 1..Len(A) |-> [j \in 1..(n - 1) |-> makeFrac(A[i][j], 1)]],
   b |-> [i \in 1..Len(A) |-> makeFrac(-A[i][n], 1)],
   row |-> 1,
   pivotRowForCol |-> [c \in 1..(n - 1) |-> 0],
   raised |-> FALSE]

(* free vars = 0, last variable set to 1 *)
SolutionOf(st, n) ==
  IF st.raised THEN [kind |-> "throw", x |-> <<>>]
  ELSE [kind |-> "value",
        x |-> [c \in 1..n |->
                 IF c = n THEN makeFrac(1, 1)
                 ELSE IF st.pivotRowForCol[c] # 0 THEN st.b[st.pivotRowForCol[c]]
                 ELSE makeFrac(0, 1)]]

SolveColumns(A, n) ==
  IF n <= 1 THEN NoVector
  ELSE SolutionOf(EliminateFrom(InitialSystem(A, n), 1, Len(A), n - 1), n)

solveRationalForLastColumn(A) == SolveColumns(A, NumCols(A))

----------------------------------------------------------------------------
(* fracsToIntegerCoeffs *)

Int32Max == 2147483647

(* The numbers of the code are doubles, exact up to 2^53, and x | 0 keeps   *)
(* the low 32 bits of x as a signed integer.  A product of two numbers      *)
(* below 2^31 is held exactly as five digits to the base 2^15, the least    *)
(* significant first.                                                       *)
Base15 == 32768

Limbs(a) == <<a % Base15, (a \div Base15) % Base15, a \div (Base15 * Base15)>>

Columns(la, lb) ==
  <<la[1] * lb[1],
    la[1] * lb[2] + la[2] * lb[1],
    la[1] * lb[3] + la[2] * lb[2] + la[3] * lb[1],
    la[2] * lb[3] + la[3] * lb[2],
    la[3] * lb[3]>>

RECURSIVE Carry(_,_,_)
Carry(cols, c, carry) ==
  IF c > Len(cols) THEN <<>>
  ELSE <<(cols[c] + carry) % Base15>> \o Carry(cols, c + 1, (cols[c] + carry) \div Base15)

(* |x * y|, exactly *)
WideMagnitude(x, y) == Carry(Columns(Limbs(Abs(x)), Limbs(Abs(y))), 1, 0)

(* the low 32 bits of the digits d, read as a signed integer *)
LowSigned(d) ==
  d[1] + d[2] * Base15
    + (IF d[3] % 4 >= 2 THEN (d[3] % 4) - 4 ELSE d[3] % 4) * (Base15 * Base15)

Negated(v) == IF v = -Int32Max - 1 THEN v ELSE -v

(* faulty variant of ProductToInt32: the product of the low 15 bits only *)
ProductOfLowBits(x, y) == (x % Base15) * (y % Base15)

(* (x * y) | 0 *)
ProductToInt32(x, y) ==
  IF (x < 0) = (y < 0)
    THEN LowSigned(WideMagnitude(x, y))
    ELSE Negated(LowSigned(WideMagnitude(x, y)))

RECURSIVE CommonDen(_,_)
CommonDen(fv, k) == IF k = 0 THEN 1 ELSE lcm(CommonDen(fv, k - 1), fv[k].den)

ScaledBy(fv, commonDen) ==
  [i \in 1..Len(fv) |-> ProductToInt32(fv[i].num, commonDen \div fv[i].den)]

IntegerVector(fv) == ScaledBy(fv, CommonDen(fv, Len(fv)))

Negatives(vec) == Cardinality({i \in 1..Len(vec) : vec[i] < 0})

Positives(vec) == Cardinality({i \in 1..Len(vec) : vec[i] > 0})

(* flip sign if most entries are negative, then take absolute values *)
AbsVector(vec) ==
  [i \in 1..Len(vec) |->
     Abs(IF Negatives(vec) > Positives(vec) THEN -vec[i] ELSE vec[i])]

RECURSIVE GcdFold(_,_,_)
GcdFold(absVec, k, acc) ==
  IF k > Len(absVec) THEN acc
  ELSE GcdFold(absVec, k + 1, IF absVec[k] # 0 THEN gcd(acc, absVec[k]) ELSE acc)

DividedBy(absVec, g) == [i \in 1..Len(absVec) |-> absVec[i] \div g]

ReduceByGcd(absVec) == DividedBy(absVec, GcdFold(absVec, 1, OrOne(absVec[1])))

RECURSIVE RowSumTo(_,_,_)
RowSumTo(row, x, k) == IF k = 0 THEN 0 ELSE RowSumTo(row, x, k - 1) + row[k] * x[k]

RowSum(row, x) == RowSumTo(row, x, Len(row))

(* faulty variant of SanityCheck: only the first row is verified *)
SanityCheckFirstRow(A, final) == Len(A) > 0 => RowSum(A[1], final) = 0

(* sanity check: A * final == 0 exactly *)
SanityCheck(A, final) == \A i \in 1..Len(A) : RowSum(A[i], final) = 0

(* faulty variant of SplitSides: the right slice starts one entry late *)
SplitSidesLate(final, leftLen) ==
  [isNull |-> FALSE, left |-> SubSeq(final, 1, leftLen),
   right |-> SubSeq(final, leftLen + 2, Len(final))]

SplitSides(final, leftLen) ==
  [isNull |-> FALSE, left |-> SubSeq(final, 1, leftLen),
   right |-> SubSeq(final, leftLen + 1, Len(final))]

NoCoeffs == [isNull |-> TRUE, left |-> <<>>, right |-> <<>>]

CoeffsOfFinal(final, leftLen, A) ==
  IF ~SanityCheck(A, final) THEN NoCoeffs ELSE SplitSides(final, leftLen)

CoeffsOfVector(vec, leftLen, A) ==
  IF \A i \in 1..Len(vec) : vec[i] = 0 THEN NoCoeffs
  ELSE CoeffsOfFinal(ReduceByGcd(AbsVector(vec)), leftLen, A)

fracsToIntegerCoeffs(fv, leftLen, rightLen, A) ==
  IF Len(fv) = 0 THEN NoCoeffs ELSE CoeffsOfVector(IntegerVector(fv), leftLen, A)

----------------------------------------------------------------------------
(* nullspace (the earlier, floating-point elimination of solver.ts): the    *)
(* numbers are held as exact fractions, so a value below EPS in magnitude   *)
(* is a value equal to 0.                                                   *)

FracAbsLess(a, b) == Abs(a.num) * b.den < Abs(b.num) * a.den

(* the first row from `row` on whose entry in the column is largest in      *)
(* magnitude                                                                *)
BestRow(M, col, row, m) ==
  CHOOSE r \in row..m :
    /\ \A r2 \in row..m : ~FracAbsLess(M[r][col], M[r2][col])
    /\ \A r2 \in row..(r - 1) : FracAbsLess(M[r2][col], M[r][col])

(* one iteration of the column loop: st = [M, row, pivots] *)
NullspaceColumn(st, col, m, n) ==
  IF st.row > m THEN st
  ELSE LET best == BestRow(st.M, col, st.row, m) IN
    IF st.M[best][col].num = 0 THEN st
    ELSE LET row == st.row
             M1 == SwapRows(st.M, best, row)
             div == M1[row][col]
             prow == [c \in 1..n |-> IF c >= col THEN fDiv(M1[row][c], div) ELSE M1[row][c]]
             M2 == [r \in 1..m |->
                      IF r = row THEN prow
                      ELSE IF M1[r][col].num = 0 THEN M1[r]
                      ELSE [c \in 1..n |->
                              IF c >= col THEN fSub(M1[r][c], fMul(M1[r][col], prow[c]))
                              ELSE M1[r][c]]]
         IN [M |-> M2, row |-> row + 1, pivots |-> [st.pivots EXCEPT ![col] = row]]

RECURSIVE NullspaceFrom(_,_,_,_)
NullspaceFrom(st, col, m, n) ==
  IF col > n THEN st
  ELSE NullspaceFrom(NullspaceColumn(st, col, m, n), col + 1, m, n)

(* the columns without a pivot, in increasing order *)
RECURSIVE FreeColumns(_,_)
FreeColumns(pivots, c) ==
  IF c = 0 THEN <<>>
  ELSE IF pivots[c] = 0 THEN Append(FreeColumns(pivots, c - 1), c)
  ELSE FreeColumns(pivots, c - 1)

(* pivots holds 0 where the code holds -1 *)
nullspace(A) ==
  LET m == Len(A)
      n == IF m = 0 THEN 0 ELSE Len(A[1])
      st0 == [M |-> [i \in 1..m |-> [j \in 1..n |-> makeFrac(A[i][j], 1)]],
              row |-> 1,
              pivots |-> [c \in 1..n |-> 0]]
      st == NullspaceFrom(st0, 1, m, n)
      free == FreeColumns(st.pivots, n)
  IN [k \in 1..Len(free) |->
        [c \in 1..n |->
           IF c = free[k] THEN makeFrac(1, 1)
           ELSE IF st.pivots[c] # 0
             THEN fSub(makeFrac(0, 1), st.M[st.pivots[c]][free[k]])
             ELSE makeFrac(0, 1)]]

----------------------------------------------------------------------------
(* analyzeBalanceability and solveEquation (the definitions in force: the   *)
(* later ones of solver.ts)                                                 *)

Analysis(raised, ok, nullity, suggestion) ==
  [raised |-> raised, balanceableAllSpecies |-> ok, nullity |-> nullity,
   suggestion |-> suggestion]

AnalysisOfSuggestion(suggestion) ==
  IF suggestion.isNull THEN Analysis(FALSE, FALSE, 0, NoCoeffs)
  ELSE Analysis(FALSE, TRUE, 1, suggestion)

AnalysisOfRaw(raw, leftLen, rightLen, A) ==
  IF raw.kind = "throw" THEN Analysis(TRUE, FALSE, 0, NoCoeffs)
  ELSE IF raw.kind = "null" THEN Analysis(FALSE, FALSE, 0, NoCoeffs)
  ELSE AnalysisOfSuggestion(fracsToIntegerCoeffs(raw.x, leftLen, rightLen, A))

AnalysisOfMatrix(A, leftLen, rightLen) ==
  IF Len(A) = 0 \/ NumCols(A) = 0 THEN Analysis(FALSE, FALSE, 0, NoCoeffs)
  ELSE AnalysisOfRaw(solveRationalForLastColumn(A), leftLen, rightLen, A)

analyzeBalanceability(leftFormulas, rightFormulas) ==
  AnalysisOfMatrix(buildElementMatrix(leftFormulas, rightFormulas).A,
                   Len(leftFormulas), Len(rightFormulas))

(* the result: raised, or null (isNull), or {left, right} *)
ResultOfAnalysis(a) ==
  IF a.raised THEN [raised |-> TRUE, isNull |-> TRUE, left |-> <<>>, right |-> <<>>]
  ELSE IF ~a.balanceableAllSpecies \/ a.suggestion.isNull
    THEN [raised |-> FALSE, isNull |-> TRUE, left |-> <<>>, right |-> <<>>]
  ELSE [raised |-> FALSE, isNull |-> FALSE,
        left |-> a.suggestion.left, right |-> a.suggestion.right]

solveEquation(leftFormulas, rightFormulas) ==
  ResultOfAnalysis(analyzeBalanceability(leftFormulas, rightFormulas))

----------------------------------------------------------------------------
(* Formula inputs *)

Alphabet == {"H", "O", "e", "0", "2", "(", ")", "[", "]", "·", ".", " "}

Strings(n) == UNION {[1..k -> Alphabet] : k \in 0..n}

Examples ==
  { <<"H","2","O">>,
    <<"M","g","(","O","H",")","2">>,
    <<"A","l","2","(","S","O","4",")","3">>,
    <<"(","N","H","4",")","2","S","O","4">>,
    <<"K","4","[","F","e","(","C","N",")","6","]">>,
    <<"F","e","(","N","O","3",")","3","·","9","H","2","O">>,
    <<"C","u","S","O","4","·","5","H","2","O">>,
    <<"C","u","S","O","4",".","5","H","2","O">>,
    <<"2","(","N","H","3",")">>,
    <<"2","(","N","(","H",")","3",")","O">>,
    <<" "," ","C","a","3"," ","("," ","P","O","4"," ",")","2"," "," "," ">>,
    <<"H","·","2","2","O">> }

Pending == [kind |-> "pending", map |-> EmptyMap]

NoCall == [op |-> "none", res |-> <<>>]

ParserInit ==
  /\ formula \in Strings(MaxLen) \cup Examples
  /\ counts = Pending
  /\ left = <<>>
  /\ right = <<>>
  /\ outcome = NoCall
  /\ records = <<>>
  /\ scale = 1
  /\ frames = <<>>
  /\ ui = NoUI

CountElements ==
  /\ counts.kind = "pending"
  /\ counts' = countElementsInFormula(formula)
  /\ UNCHANGED <<formula, left, right, outcome, records, scale, frames, ui>>

(* faulty variant of SortedKeys: the keys in descending order *)
RECURSIVE DescendingKeys(_)
DescendingKeys(m) ==
  IF DOMAIN m = {} THEN <<>>
  ELSE LET least == LeastSymbol(DOMAIN m)
       IN Append(DescendingKeys([e \in DOMAIN m \ {least} |-> m[e]]), least)

(* the key order of the returned record: [...counts.entries()].sort(...) *)
SortedKeys(m) == SortSymbols(DOMAIN m)

TokenizeFormula ==
  /\ outcome.op = "none"
  /\ outcome' = [op |-> "tokenizeFormula", res |-> tokenizeFormula(formula)]
  /\ UNCHANGED <<formula, counts, left, right, records, scale, frames, ui>>

(* another call of countElementsInFormula on the same string, before or     *)
(* after the first; its result is kept with its key order                   *)
CountElementsAgain ==
  /\ outcome.op = "none"
  /\ outcome' = [op |-> "countElementsInFormula",
                 res |-> [kind |-> countElementsInFormula(formula).kind,
                          map |-> countElementsInFormula(formula).map,
                          keys |-> SortedKeys(countElementsInFormula(formula).map)]]
  /\ UNCHANGED <<formula, counts, left, right, records, scale, frames, ui>>

(* tokensToCounts on the token array of an earlier tokenizeFormula call; the *)
(* array stays in res, the returned accumulator is out                      *)
TokensToCounts ==
  /\ outcome.op = "tokenizeFormula"
  /\ outcome' = [op |-> "tokensToCounts", res |-> outcome.res,
                 out |-> tokensToCounts(outcome.res)]
  /\ UNCHANGED <<formula, counts, left, right, records, scale, frames, ui>>

(* multiplyCounts and sumCounts on the record of an earlier call *)
MultiplyCounted ==
  /\ outcome.op = "none"
  /\ counts.kind = "value"
  /\ outcome' = [op |-> "multiplyCounts", res |-> multiplyCounts(counts.map, scale)]
  /\ UNCHANGED <<formula, counts, left, right, records, scale, frames, ui>>

SumCounted ==
  /\ outcome.op = "none"
  /\ counts.kind = "value"
  /\ outcome' = [op |-> "sumCounts", res |-> sumCounts(<<counts.map, counts.map>>)]
  /\ UNCHANGED <<formula, counts, left, right, records, scale, frames, ui>>

ParserNext ==
  \/ CountElements
  \/ TokenizeFormula
  \/ CountElementsAgain
  \/ TokensToCounts
  \/ MultiplyCounted
  \/ SumCounted

SpecParser == ParserInit /\ [][ParserNext]_vars

----------------------------------------------------------------------------
(* Text inputs: raw equation strings and chunks *)

TextAlphabet == {"H", "2", "0", "+", " ", "\n", "-", "=", ">", "<", "→"}

Texts(n) == UNION {[1..k -> TextAlphabet] : k \in 0..n}

T_Propane ==
  <<"C","3","H","8"," ","+"," ","O","2"," ","-",">"," ","C","O","2"," ","+"," ","H","2","O">>

T_PropaneUnicode ==
  <<"C","3","H","8"," ","+"," ","O","2"," ","→"," ","C","O","2"," ","+"," ","H","2","O">>

T_Iron ==
  <<" ","F","e"," ","+"," ","O","2"," "," "," ","=",">"," "," "," ","F","e","2","O","3"," ">>

T_NoArrow ==
  <<"H","2"," ","+"," ","O","2"," ","C","O","2"," ","+"," ","H","2","O">>

T_LongArrow == <<"H","2","+","O","2","-","-","-",">","H","2","O">>

T_Water == <<"2","H","2","O">>

T_WaterSpaced == <<" "," ","H","2","O">>

TextExamples ==
  {T_Propane, T_PropaneUnicode, T_Iron, T_NoArrow, T_LongArrow, T_Water, T_WaterSpaced}

TextInit ==
  /\ formula \in Texts(MaxText) \cup TextExamples
  /\ counts = Pending
  /\ left = <<>>
  /\ right = <<>>
  /\ outcome = NoCall
  /\ records = <<>>
  /\ scale = 1
  /\ frames = <<>>
  /\ ui = NoUI

NormalizeArrow ==
  /\ outcome.op = "none"
  /\ outcome' = [op |-> "normalizeArrow", res |-> normalizeArrow(formula)]
  /\ UNCHANGED <<formula, counts, left, right, records, scale, frames, ui>>

SplitEquation ==
  /\ outcome.op = "none"
  /\ outcome' = [op |-> "splitEquation", res |-> splitEquation(formula)]
  /\ UNCHANGED <<formula, counts, left, right, records, scale, frames, ui>>

ParseSpecies ==
  /\ outcome.op = "none"
  /\ outcome' = [op |-> "parseSpecies", res |-> parseSpecies(formula)]
  /\ UNCHANGED <<formula, counts, left, right, records, scale, frames, ui>>

TextNext == NormalizeArrow \/ SplitEquation \/ ParseSpecies

SpecText == TextInit /\ [][TextNext]_vars

TextTypeOK == outcome.op \in {"none", "normalizeArrow", "splitEquation", "parseSpecies"}

----------------------------------------------------------------------------
(* ElementCount inputs: the counts of a few formulas, and the scaled counts *)
(* of the tests                                                             *)

RecordPool ==
  { countElementsInFormula(f).map :
      f \in { <<"H","2","O">>, <<"C","O","2">>, <<"H","2">>, <<"O","2">>,
              <<>>, <<"H","0">> } }

R_TwoCO2 == multiplyCounts(countElementsInFormula(<<"C","O","2">>).map, 2)

R_ThreeH2O == multiplyCounts(countElementsInFormula(<<"H","2","O">>).map, 3)

RecordLists == UNION {[1..n -> RecordPool] : n \in 0..MaxRecords} \cup {<<R_TwoCO2, R_ThreeH2O>>}

CountsInit ==
  /\ formula = <<>>
  /\ counts = Pending
  /\ left = <<>>
  /\ right = <<>>
  /\ outcome = NoCall
  /\ records \in RecordLists
  /\ scale \in 0..MaxScale
  /\ frames = <<>>
  /\ ui = NoUI

MultiplyCounts ==
  /\ outcome.op = "none"
  /\ records # <<>>
  /\ outcome' = [op |-> "multiplyCounts", res |-> multiplyCounts(records[1], scale)]
  /\ UNCHANGED <<formula, counts, left, right, records, scale, frames, ui>>

SumCounts ==
  /\ outcome.op = "none"
  /\ outcome' = [op |-> "sumCounts", res |-> sumCounts(records)]
  /\ UNCHANGED <<formula, counts, left, right, records, scale, frames, ui>>

(* sumCounts(list.map((c) => multiplyCounts(c, k))) *)
SumScaledCounts ==
  /\ outcome.op = "none"
  /\ outcome' = [op |-> "sumScaled",
                 res |-> sumCounts([i \in 1..Len(records) |-> multiplyCounts(records[i], scale)])]
  /\ UNCHANGED <<formula, counts, left, right, records, scale, frames, ui>>

CountsNext == MultiplyCounts \/ SumCounts \/ SumScaledCounts

SpecCounts == CountsInit /\ [][CountsNext]_vars

CountsTypeOK == outcome.op \in {"none", "multiplyCounts", "sumCounts", "sumScaled"}

----------------------------------------------------------------------------
(* Equation inputs *)

F_C == <<"C">>

F_O2 == <<"O","2">>

F_CO == <<"C","O">>

F_CO2 == <<"C","O","2">>

F_H2 == <<"H","2">>

F_H2O == <<"H","2","O">>

F_C3H8 == <<"C","3","H","8">>

F_Empty == <<>>

F_Fe == <<"F","e">>

F_Fe2O3 == <<"F","e","2","O","3">>

F_Na3PO4 == <<"N","a","3","P","O","4">>

F_CaCl2 == <<"C","a","C","l","2">>

F_Ca3PO42 == <<"C","a","3","(","P","O","4",")","2">>

F_NaCl == <<"N","a","C","l">>

F_CuSO4 == <<"C","u","S","O","4">>

F_CuSO4_5H2O == <<"C","u","S","O","4","·","5","H","2","O">>

SpeciesPool == {F_C, F_O2, F_CO, F_CO2, F_H2, F_Empty}

SpeciesLists(k) == [1..k -> SpeciesPool]

ExampleEquations ==
  { <<<<F_C3H8, F_O2>>, <<F_CO2, F_H2O>>>>,
    <<<<F_C, F_O2>>, <<F_CO, F_CO2>>>>,
    <<<<F_Empty, F_C3H8, F_O2>>, <<F_CO2, F_H2O>>>>,
    <<<<F_H2, F_O2>>, <<F_H2O>>>>,
    <<<<F_Fe, F_O2>>, <<F_Fe2O3>>>>,
    <<<<F_Na3PO4, F_CaCl2>>, <<F_Ca3PO42, F_NaCl>>>>,
    <<<<F_CuSO4_5H2O>>, <<F_CuSO4, F_H2O>>>> }

Equations ==
  UNION {SpeciesLists(nl) \X SpeciesLists(nr) :
           <<nl, nr>> \in {p \in (0..MaxSpecies) \X (0..MaxSpecies) : p[1] + p[2] <= MaxSpecies}}
    \cup ExampleEquations

SolverInit ==
  /\ formula = <<>>
  /\ counts = Pending
  /\ \E lr \in Equations : left = lr[1] /\ right = lr[2]
  /\ outcome = NoCall
  /\ records = <<>>
  /\ scale = 1
  /\ frames = <<>>
  /\ ui = NoUI

SolveEquation ==
  /\ outcome.op = "none"
  /\ outcome' = [op |-> "solveEquation", res |-> solveEquation(left, right)]
  /\ UNCHANGED <<formula, counts, left, right, records, scale, frames, ui>>

AnalyzeBalanceability ==
  /\ outcome.op = "none"
  /\ outcome' = [op |-> "analyzeBalanceability", res |-> analyzeBalanceability(left, right)]
  /\ UNCHANGED <<formula, counts, left, right, records, scale, frames, ui>>

BuildElementMatrix ==
  /\ outcome.op = "none"
  /\ outcome' = [op |-> "buildElementMatrix", res |-> buildElementMatrix(left, right)]
  /\ UNCHANGED <<formula, counts, left, right, records, scale, frames, ui>>

SolverNext == SolveEquation \/ AnalyzeBalanceability \/ BuildElementMatrix

SpecSolver == SolverInit /\ [][SolverNext]_vars

SolverTypeOK ==
  outcome.op \in {"none", "solveEquation", "analyzeBalanceability", "buildElementMatrix"}

ParserTypeOK ==
  /\ counts.kind \in {"pending", "value", "throw"}
  /\ outcome.op \in {"none", "tokenizeFormula", "countElementsInFormula", "tokensToCounts",
                     "multiplyCounts", "sumCounts"}

----------------------------------------------------------------------------
(* The loops, one iteration per step: the while loop of tokenizeFormula,    *)
(* the while loop of tokensToCounts with its recursive calls (frames is the *)
(* call stack, the innermost call last), and the loop over the combinations *)
(* of findSignedFeasibleSolution (the first half of solver.ts).             *)

(* tokenizeFormula: the index after the iteration at index i *)
NextScanIndex(s, i) ==
  IF s[i] \in DotSet \cup ParenSet THEN i + 1
  ELSE IF s[i] \in UpperSet
    THEN DigitRunEnd(s, IF At(s, i + 1) \in LowerSet THEN i + 2 ELSE i + 1)
  ELSE IF s[i] \in DigitSet THEN DigitRunEnd(s, i)
  ELSE i + 1

Frame(tokens, mult, resume) ==
  [tokens |-> tokens, i |-> 1, stack |-> <<EmptyMap>>, parenStack |-> <<>>,
   mult |-> mult, resume |-> resume]

Continue(fr, ni, stack, parenStack) ==
  [kind |-> "next", frame |-> [fr EXCEPT !.i = ni, !.stack = stack, !.parenStack = parenStack]]

(* a recursive call on sub; the caller resumes at index resume, or leaves   *)
(* its loop (break) when resume is 0                                        *)
Call(fr, sub, N, resume) == [kind |-> "call", frame |-> Frame(sub, N, resume)]

Throw(fr) == [kind |-> "throw", frame |-> fr]

(* faulty variant of HydrateSlice: the slice starts at the dot *)
HydrateSliceFromDot(tokens, i) == SubSeq(tokens, i, Len(tokens))

(* tokens.slice(i + 2) of the dot branch *)
HydrateSlice(tokens, i) == SubSeq(tokens, i + 2, Len(tokens))

CloserIteration(fr, tokens, i, hasMult) ==
  IF fr.stack = <<>> THEN Throw(fr)
  ELSE IF Popped(fr.stack) = <<>> THEN
    IF DOMAIN fr.stack[Len(fr.stack)] = {}
      THEN Continue(fr, IF hasMult THEN i + 2 ELSE i + 1, <<>>,
                    IF fr.parenStack = <<>> THEN <<>> ELSE Popped(fr.parenStack))
      ELSE Throw(fr)
  ELSE Continue(fr, IF hasMult THEN i + 2 ELSE i + 1,
         [Popped(fr.stack) EXCEPT ![Len(fr.stack) - 1] =
            MergeScaled(@, fr.stack[Len(fr.stack)],
                        IF hasMult THEN tokens[i + 1].count ELSE 1)],
         IF fr.parenStack = <<>> THEN <<>> ELSE Popped(fr.parenStack))

NumIteration(fr, tokens, i) ==
  IF i + 1 > Len(tokens) THEN Continue(fr, i + 1, fr.stack, fr.parenStack)
  ELSE IF tokens[i + 1].type = "elem" THEN
    IF fr.stack = <<>> THEN Throw(fr)
    ELSE Continue(fr, i + 2,
           [fr.stack EXCEPT ![Len(fr.stack)] =
              pushCounts(@, tokens[i + 1].symbol, tokens[i + 1].count * tokens[i].count)],
           fr.parenStack)
  ELSE IF IsOpener(tokens[i + 1])
    THEN Call(fr, SubSeq(tokens, i + 1, FindGroupEnd(tokens, i + 1, 0) - 1),
              tokens[i].count, FindGroupEnd(tokens, i + 1, 0))
  ELSE Continue(fr, i + 1, fr.stack, fr.parenStack)

(* one iteration of the while loop of tokensToCounts in the call fr *)
Iteration(fr, tokens, i) ==
  IF tokens[i].type = "elem" THEN
    IF fr.stack = <<>> THEN Throw(fr)
    ELSE Continue(fr, i + 1,
           [fr.stack EXCEPT ![Len(fr.stack)] = pushCounts(@, tokens[i].symbol, tokens[i].count)],
           fr.parenStack)
  ELSE IF IsOpener(tokens[i])
    THEN Continue(fr, i + 1, Append(fr.stack, EmptyMap), Append(fr.parenStack, tokens[i].value))
  ELSE IF IsCloser(tokens[i])
    THEN CloserIteration(fr, tokens, i, i + 1 <= Len(tokens) /\ tokens[i + 1].type = "num")
  ELSE IF tokens[i].type = "dot" THEN
    IF i + 1 <= Len(tokens) /\ tokens[i + 1].type = "num"
      THEN Call(fr, HydrateSlice(tokens, i), tokens[i + 1].count, 0)
      ELSE Continue(fr, i + 1, fr.stack, fr.parenStack)
  ELSE IF tokens[i].type = "num" THEN NumIteration(fr, tokens, i)
  ELSE Continue(fr, i + 1, fr.stack, fr.parenStack)

(* the caller after the sub-call returned sub: the entries of sub times     *)
(* mult are pushed to the caller's top accumulator                          *)
Resumed(caller, sub, mult, resume) ==
  IF sub.kind # "value" THEN Throw(caller)
  ELSE IF caller.stack = <<>> /\ DOMAIN sub.map # {} THEN Throw(caller)
  ELSE Continue(caller,
         IF resume = 0 THEN Len(caller.tokens) + 1 ELSE resume,
         IF caller.stack = <<>> THEN <<>>
         ELSE [caller.stack EXCEPT ![Len(caller.stack)] = MergeScaled(@, sub.map, mult)],
         caller.parenStack)

RECURSIVE Power(_,_)
Power(b, e) == IF e = 0 THEN 1 ELSE b * Power(b, e - 1)

(* const K = [-3, -2, -1, 1, 2, 3] *)
K == <<-3, -2, -1, 1, 2, 3>>

(* the coefficients of the n-th combination the generator yields (n from 0) *)
ComboAt(n, B) == [idx \in 1..B |-> K[((n \div Power(Len(K), B - idx)) % Len(K)) + 1]]

RECURSIVE WeightedSum(_,_,_,_)
WeightedSum(basis, coeffs, i, j) ==
  IF i = 0 THEN 0 ELSE WeightedSum(basis, coeffs, i - 1, j) + coeffs[i] * basis[i][j]

CombinationVector(basis, coeffs) ==
  [j \in 1..Len(basis[1]) |-> WeightedSum(basis, coeffs, Len(basis), j)]

(* s * x > EPS for every x, with s = -1 when most entries are negative *)
allPositiveUpToSign(v) ==
  IF Negatives(v) > Len(v) - Negatives(v)
    THEN \A j \in 1..Len(v) : -v[j] > 0
    ELSE \A j \in 1..Len(v) : v[j] > 0

(* the number of vectors the loops can examine: [1, -1] for one basis       *)
(* vector, every combination otherwise                                      *)
Candidates(B) == IF B = 0 THEN 0 ELSE IF B = 1 THEN 2 ELSE Power(Len(K), B)

(* the n-th vector examined (n from 0) *)
CandidateAt(basis, n) ==
  IF Len(basis) = 1
    THEN [j \in 1..Len(basis[1]) |-> (IF n = 0 THEN 1 ELSE -1) * basis[1][j]]
    ELSE CombinationVector(basis, ComboAt(n, Len(basis)))

StepAlphabet == {"H", "2", "(", ")", "·"}

StepStrings(n) == UNION {[1..k -> StepAlphabet] : k \in 0..n}

BasisPool == {<<1, -1>>, <<1, 1>>, <<0, 1>>}

Bases == UNION {[1..n -> BasisPool] : n \in 0..MaxBasis}

ScanStart == [op |-> "tokenizeFormula", i |-> 1, done |-> FALSE]

EvalStart == [op |-> "tokensToCounts", done |-> FALSE, res |-> Pending]

SearchStart(basis) ==
  [op |-> "findSignedFeasibleSolution", basis |-> basis, examined |-> 0,
   done |-> FALSE, found |-> FALSE]

StepsInit ==
  /\ counts = Pending
  /\ left = <<>>
  /\ right = <<>>
  /\ records = <<>>
  /\ scale = 1
  /\ ui = NoUI
  /\ \/ /\ formula \in StepStrings(MaxStepLen) \cup Examples
        /\ outcome = ScanStart
        /\ frames = <<>>
     \/ /\ formula \in StepStrings(MaxStepLen) \cup Examples
        /\ outcome = EvalStart
        /\ frames = <<Frame(tokenizeFormula(formula), 1, 0)>>
     \/ /\ formula = <<>>
        /\ outcome \in {SearchStart(b) : b \in Bases}
        /\ frames = <<>>

ScanIteration ==
  /\ outcome.op = "tokenizeFormula"
  /\ ~outcome.done
  /\ outcome.i <= Len(StripWhitespace(formula))
  /\ outcome' = [outcome EXCEPT !.i = NextScanIndex(StripWhitespace(formula), outcome.i)]
  /\ UNCHANGED <<formula, counts, left, right, records, scale, frames, ui>>

ScanReturn ==
  /\ outcome.op = "tokenizeFormula"
  /\ ~outcome.done
  /\ outcome.i > Len(StripWhitespace(formula))
  /\ outcome' = [outcome EXCEPT !.done = TRUE]
  /\ UNCHANGED <<formula, counts, left, right, records, scale, frames, ui>>

Innermost == frames[Len(frames)]

Raise ==
  /\ outcome' = [outcome EXCEPT !.done = TRUE, !.res = TypeError]
  /\ frames' = <<>>

Apply(step) ==
  IF step.kind = "throw" THEN Raise
  ELSE IF step.kind = "call"
    THEN frames' = Append(frames, step.frame) /\ UNCHANGED outcome
  ELSE frames' = [frames EXCEPT ![Len(frames)] = step.frame] /\ UNCHANGED outcome

EvalIteration ==
  /\ outcome.op = "tokensToCounts"
  /\ ~outcome.done
  /\ Innermost.i <= Len(Innermost.tokens)
  /\ Apply(Iteration(Innermost, Innermost.tokens, Innermost.i))
  /\ UNCHANGED <<formula, counts, left, right, records, scale, ui>>

ApplyReturn(step) ==
  IF step.kind = "throw" THEN Raise
  ELSE /\ frames' = [Popped(frames) EXCEPT ![Len(frames) - 1] = step.frame]
       /\ UNCHANGED outcome

(* return stack[0], to the caller or as the result *)
EvalReturn ==
  /\ outcome.op = "tokensToCounts"
  /\ ~outcome.done
  /\ Innermost.i > Len(Innermost.tokens)
  /\ IF Len(frames) = 1
       THEN /\ outcome' = [outcome EXCEPT !.done = TRUE, !.res = StackRoot(Innermost.stack)]
            /\ frames' = <<>>
       ELSE ApplyReturn(Resumed(frames[Len(frames) - 1], StackRoot(Innermost.stack),
                                Innermost.mult, Innermost.resume))
  /\ UNCHANGED <<formula, counts, left, right, records, scale, ui>>

ExamineCombination ==
  /\ outcome.op = "findSignedFeasibleSolution"
  /\ ~outcome.done
  /\ outcome.examined < Candidates(Len(outcome.basis))
  /\ outcome' = [outcome EXCEPT
                   !.examined = @ + 1,
                   !.done = allPositiveUpToSign(CandidateAt(outcome.basis, outcome.examined)),
                   !.found = allPositiveUpToSign(CandidateAt(outcome.basis, outcome.examined))]
  /\ UNCHANGED <<formula, counts, left, right, records, scale, frames, ui>>

SearchReturnNull ==
  /\ outcome.op = "findSignedFeasibleSolution"
  /\ ~outcome.done
  /\ outcome.examined >= Candidates(Len(outcome.basis))
  /\ outcome' = [outcome EXCEPT !.done = TRUE]
  /\ UNCHANGED <<formula, counts, left, right, records, scale, frames, ui>>

StepsNext ==
  \/ ScanIteration
  \/ ScanReturn
  \/ EvalIteration
  \/ EvalReturn
  \/ ExamineCombination
  \/ SearchReturnNull

(* a call that has not returned takes its next step *)
SpecSteps == StepsInit /\ [][StepsNext]_vars /\ WF_vars(StepsNext)

(* the stepwise evaluation returns what tokensToCounts returns *)
StepsAgree ==
  (outcome.op = "tokensToCounts" /\ outcome.done) =>
    outcome.res = (IF tokensToCounts(tokenizeFormula(formula)).kind = "throw"
                     THEN TypeError ELSE tokensToCounts(tokenizeFormula(formula)))

----------------------------------------------------------------------------
(* Fraction inputs: the five operations on fractions in normal form, and    *)
(* the elimination of solveRationalForLastColumn one column per step,       *)
(* followed by the scaling of fracsToIntegerCoeffs.                         *)

InLowestTerms(f) ==
  /\ f.den > 0
  /\ \A g \in 2..f.den : ~(f.num % g = 0 /\ f.den % g = 0)

NormalFracs ==
  {f \in [num : (-MaxFrac)..MaxFrac, den : 1..MaxFrac] : InLowestTerms(f)}

F_H65536 == <<"H", "6", "5", "5", "3", "6">>
F_O == <<"O">>
F_HO65536 == <<"H", "O", "6", "5", "5", "3", "6">>

(* H65536 + O -> HO65536, balanced by 1, 4294967296 and 65536 *)
WideEquation == <<<<F_H65536, F_O>>, <<F_HO65536>>>>

FracEquations == Equations \cup {WideEquation}

FracInit ==
  /\ formula = <<>>
  /\ counts = Pending
  /\ records = <<>>
  /\ scale = 1
  /\ frames = <<>>
  /\ ui = NoUI
  /\ \/ /\ left = <<>>
        /\ right = <<>>
        /\ outcome \in [op : {"operands"}, a : NormalFracs, b : NormalFracs]
     \/ /\ left = <<>>
        /\ right = <<>>
        /\ outcome \in [op : {"integers"}, num : (-MaxFrac)..MaxFrac,
                        den : ((-MaxFrac)..MaxFrac) \ {0}]
     \/ /\ \E lr \in FracEquations : left = lr[1] /\ right = lr[2]
        /\ outcome = [op |-> "matrix"]

Operated(op, res) == [op |-> op, a |-> outcome.a, b |-> outcome.b, res |-> res]

MakeFrac ==
  /\ outcome.op = "integers"
  /\ outcome' = [op |-> "makeFrac", a |-> outcome.num, b |-> outcome.den,
                 res |-> makeFrac(outcome.num, outcome.den)]
  /\ UNCHANGED <<formula, counts, left, right, records, scale, frames, ui>>

FAdd ==
  /\ outcome.op = "operands"
  /\ outcome' = Operated("fAdd", fAdd(outcome.a, outcome.b))
  /\ UNCHANGED <<formula, counts, left, right, records, scale, frames, ui>>

FSub ==
  /\ outcome.op = "operands"
  /\ outcome' = Operated("fSub", fSub(outcome.a, outcome.b))
  /\ UNCHANGED <<formula, counts, left, right, records, scale, frames, ui>>

FMul ==
  /\ outcome.op = "operands"
  /\ outcome' = Operated("fMul", fMul(outcome.a, outcome.b))
  /\ UNCHANGED <<formula, counts, left, right, records, scale, frames, ui>>

FDiv ==
  /\ outcome.op = "operands"
  /\ outcome.b.num # 0
  /\ outcome' = Operated("fDiv", fDiv(outcome.a, outcome.b))
  /\ UNCHANGED <<formula, counts, left, right, records, scale, frames, ui>>

Eliminating(A, n, st, col) ==
  [op |-> "eliminate", A |-> A, n |-> n, st |-> st, col |-> col]

(* the systems B and b of solveRationalForLastColumn are set up *)
StartElimination ==
  /\ outcome.op = "matrix"
  /\ NumCols(buildElementMatrix(left, right).A) > 1
  /\ outcome' = Eliminating(buildElementMatrix(left, right).A,
                            NumCols(buildElementMatrix(left, right).A),
                            InitialSystem(buildElementMatrix(left, right).A,
                                          NumCols(buildElementMatrix(left, right).A)),
                            1)
  /\ UNCHANGED <<formula, counts, left, right, records, scale, frames, ui>>

EliminateNextColumn ==
  /\ outcome.op = "eliminate"
  /\ outcome.col <= outcome.n - 1
  /\ outcome' = Eliminating(outcome.A, outcome.n,
                            EliminateColumn(outcome.st, outcome.col, Len(outcome.A)),
                            outcome.col + 1)
  /\ UNCHANGED <<formula, counts, left, right, records, scale, frames, ui>>

Scaled(fv) ==
  [op |-> "fracsToIntegerCoeffs", fv |-> fv, commonDen |-> CommonDen(fv, Len(fv)),
   vec |-> IntegerVector(fv)]

(* the solution is built and fracsToIntegerCoeffs computes vec from it *)
ScaleToIntegers ==
  /\ outcome.op = "eliminate"
  /\ outcome.col > outcome.n - 1
  /\ ~outcome.st.raised
  /\ outcome' = Scaled(SolutionOf(outcome.st, outcome.n).x)
  /\ UNCHANGED <<formula, counts, left, right, records, scale, frames, ui>>

FracNext ==
  \/ MakeFrac
  \/ FAdd
  \/ FSub
  \/ FMul
  \/ FDiv
  \/ StartElimination
  \/ EliminateNextColumn
  \/ ScaleToIntegers

SpecFrac == FracInit /\ [][FracNext]_vars

----------------------------------------------------------------------------
(* EquationBalancerPlayground.  ui holds the component's state after the    *)
(* effects of the last event have run: eqn, parsed, coeffs and hintUsed     *)
(* (hintText is shown and never read, and is left out).  A render that      *)
(* raises (a formula whose evaluation raises) unmounts the component: ui is *)
(* then Crashed, and no handler runs.  The chips are stepped while their    *)
(* coefficient is within MaxCoeff.                                          *)

SpaceArrow == <<" ", "-", ">", " ">>

SpacePlus == <<" ", "+", " ">>

(* .replace(/\s+/g, " ") *)
RECURSIVE CollapseSpaces(_,_)
CollapseSpaces(s, i) ==
  IF i > Len(s) THEN <<>>
  ELSE IF s[i] \in WhitespaceSet
    THEN <<" ">> \o CollapseSpaces(s, SetRunEnd(s, i, WhitespaceSet))
  ELSE <<s[i]>> \o CollapseSpaces(s, i + 1)

(* the plus with the whitespace around it becomes " + " *)
RECURSIVE AroundPlus(_,_)
AroundPlus(s, i) ==
  IF i > Len(s) THEN <<>>
  ELSE IF At(s, SetRunEnd(s, i, WhitespaceSet)) = "+"
    THEN SpacePlus \o
         AroundPlus(s, SetRunEnd(s, SetRunEnd(s, i, WhitespaceSet) + 1, WhitespaceSet))
  ELSE <<s[i]>> \o AroundPlus(s, i + 1)

(* the index after the match of whitespace, "-", whitespace, ">",           *)
(* whitespace that starts at i, or 0; d is the index of the dash            *)
ArrowMatchEnd(s, d) ==
  IF At(s, d) = "-" /\ At(s, SetRunEnd(s, d + 1, WhitespaceSet)) = ">"
    THEN SetRunEnd(s, SetRunEnd(s, d + 1, WhitespaceSet) + 1, WhitespaceSet)
    ELSE 0

RECURSIVE AroundArrow(_,_)
AroundArrow(s, i) ==
  IF i > Len(s) THEN <<>>
  ELSE IF ArrowMatchEnd(s, SetRunEnd(s, i, WhitespaceSet)) # 0
    THEN SpaceArrow \o AroundArrow(s, ArrowMatchEnd(s, SetRunEnd(s, i, WhitespaceSet)))
  ELSE <<s[i]>> \o AroundArrow(s, i + 1)

normalizeSpaces(s) == Trim(AroundArrow(AroundPlus(CollapseSpaces(s, 1), 1), 1))

E_Propane ==
  <<"C","3","H","8"," ","+"," ","O","2"," ","-",">"," ","C","O","2"," ","+",
    " ","H","2","O">>

E_Iron ==
  <<"F","e"," ","+"," ","O","2"," ","-",">"," ","F","e","2","O","3">>

E_Phosphate ==
  <<"N","a","3","P","O","4"," ","+"," ","C","a","C","l","2"," ","-",">"," ",
    "C","a","3","(","P","O","4",")","2"," ","+"," ","N","a","C","l">>

E_Permanganate ==
  <<"K","M","n","O","4"," ","+"," ","H","C","l"," ","-",">"," ","K","C","l",
    " ","+"," ","M","n","C","l","2"," ","+"," ","H","2","O"," ","+"," ","C",
    "l","2">>

E_Hydrate ==
  <<"C","u","S","O","4","·","5","H","2","O"," ","-",">"," ","C","u","S","O",
    "4"," ","+"," ","H","2","O">>

V_Water ==
  <<"H","2"," ","+"," ","O","2"," ","-",">"," ","H","2","O">>

V_WaterInline ==
  <<"2","H","2"," ","+"," ","O","2"," ","-",">"," ","2","H","2","O">>

V_WaterDense ==
  <<"H","2","+","O","2"," "," ","-"," ",">","H","2","O">>

V_Sides ==
  <<"H","2"," ","+"," ","O","2">>

V_Closer ==
  <<"H",")"," ","-",">"," ","H">>

V_Monoxide ==
  <<"C"," ","+"," ","O","2"," ","-",">"," ","C","O"," ","+"," ","C","O","2">>

V_Nothing == <<>>

examples == <<E_Propane, E_Iron, E_Phosphate, E_Permanganate, E_Hydrate>>

(* the values typed or pasted into the input *)
Typed ==
  {V_Water, V_WaterInline, V_WaterDense, V_Sides, V_Closer, V_Monoxide, V_Nothing,
   E_Propane, E_Phosphate}

(* parsed.left.map((s) => parseSpecies(s).coeff), or no entries without parsed *)
InlineCoeffs(parsed) ==
  [left |-> [i \in 1..Len(parsed.left) |-> parseSpecies(parsed.left[i]).coeff],
   right |-> [i \in 1..Len(parsed.right) |-> parseSpecies(parsed.right[i]).coeff]]

(* species.left.map((s) => s.formula) *)
FormulasOf(side) == [i \in 1..Len(side) |-> parseSpecies(side[i]).formula]

(* the render raises: countElementsInFormula raises on a formula *)
RenderRaises(parsed) ==
  \/ \E i \in 1..Len(parsed.left) :
       countElementsInFormula(parseSpecies(parsed.left[i]).formula).kind = "throw"
  \/ \E i \in 1..Len(parsed.right) :
       countElementsInFormula(parseSpecies(parsed.right[i]).formula).kind = "throw"

Crashed ==
  [mounted |-> TRUE, crashed |-> TRUE, eqn |-> <<>>, parsed |-> NoEquation,
   coeffs |-> [left |-> <<>>, right |-> <<>>], hintUsed |-> FALSE]

(* faulty variant of CoeffsEffect: the coefficients are reset after every parse *)
CoeffsEffectAlways(coeffs, before, after) == after

(* the effect with the dependencies initCoeffs.left.length and              *)
(* initCoeffs.right.length: before and after are initCoeffs of the previous *)
(* and of this render                                                       *)
CoeffsEffect(coeffs, before, after) ==
  IF Len(before.left) # Len(after.left) \/ Len(before.right) # Len(after.right)
    THEN after
    ELSE coeffs

(* setEqn(eqn) and the effects after it: the text is parsed again and the   *)
(* coefficients are reset when the number of species changed                *)
AfterEdit(u, eqn, parsed) ==
  IF RenderRaises(parsed) THEN Crashed
  ELSE [u EXCEPT !.eqn = eqn, !.parsed = parsed,
                 !.coeffs = CoeffsEffect(u.coeffs, InlineCoeffs(u.parsed), InlineCoeffs(parsed))]

WithEquation(u, eqn) == AfterEdit(u, eqn, splitEquation(eqn))

(* coeffs.left[idx] ?? sp.coeff *)
ShownCoeff(cs, side, idx) ==
  IF idx <= Len(cs) THEN cs[idx] ELSE parseSpecies(side[idx]).coeff

SideCounts(cs, side) ==
  [idx \in 1..Len(side) |->
     multiplyCounts(countFn(parseSpecies(side[idx]).formula), ShownCoeff(cs, side, idx))]

mergeElements(lhs, rhs) == SortSymbols(DOMAIN lhs \cup DOMAIN rhs)

DiffOf(leftSum, rightSum) ==
  [el \in DOMAIN leftSum \cup DOMAIN rightSum |-> Get(leftSum, el) - Get(rightSum, el)]

(* faulty variant of BalancedOf: the elements are not required *)
BalancedOfEvery(diff, elements) == \A el \in DOMAIN diff : diff[el] = 0

(* Object.values(diff).every((d) => d === 0) && elements.length > 0 *)
BalancedOf(diff, elements) == (\A el \in DOMAIN diff : diff[el] = 0) /\ Len(elements) > 0

CountsOfSums(leftSum, rightSum) ==
  [isNull |-> FALSE, leftSum |-> leftSum, rightSum |-> rightSum,
   elements |-> mergeElements(leftSum, rightSum),
   diff |-> DiffOf(leftSum, rightSum),
   balanced |-> BalancedOf(DiffOf(leftSum, rightSum), mergeElements(leftSum, rightSum))]

NoCounts ==
  [isNull |-> TRUE, leftSum |-> EmptyMap, rightSum |-> EmptyMap, elements |-> <<>>,
   diff |-> EmptyMap, balanced |-> FALSE]

(* the memo counts *)
CountsOf(u) ==
  IF u.parsed.isNull THEN NoCounts
  ELSE CountsOfSums(sumCounts(SideCounts(u.coeffs.left, u.parsed.left)),
                    sumCounts(SideCounts(u.coeffs.right, u.parsed.right)))

(* faulty variant of AutoSolveShown: the button is always rendered *)
AutoSolveAlwaysShown(u) == TRUE

(* hintUsed && the Auto solve button *)
AutoSolveShown(u) == u.hintUsed

SolutionOfParsed(parsed) == solveEquation(FormulasOf(parsed.left), FormulasOf(parsed.right))

(* faulty variant of SetAt: the entries from i on are set *)
SetFrom(cs, i, v) == [j \in 1..Len(cs) |-> IF j >= i THEN v ELSE cs[j]]

(* c.left.map((x, j) => (j === i ? v : x)) *)
SetAt(cs, i, v) == [j \in 1..Len(cs) |-> IF j = i THEN v ELSE cs[j]]

UIInit ==
  /\ formula = <<>>
  /\ counts = Pending
  /\ left = <<>>
  /\ right = <<>>
  /\ outcome = NoCall
  /\ records = <<>>
  /\ scale = 1
  /\ frames = <<>>
  /\ ui = [mounted |-> TRUE, crashed |-> FALSE, eqn |-> examples[1],
           parsed |-> splitEquation(examples[1]),
           coeffs |-> InlineCoeffs(splitEquation(examples[1])),
           hintUsed |-> FALSE]

Live == ui.mounted /\ ~ui.crashed

(* onChange of the input *)
EditEquation ==
  /\ Live
  /\ \E value \in Typed : ui' = WithEquation(ui, normalizeSpaces(value))
  /\ UNCHANGED <<formula, counts, left, right, outcome, records, scale, frames>>

RandomExample ==
  /\ Live
  /\ \E idx \in 1..Len(examples) : ui' = WithEquation(ui, examples[idx])
  /\ UNCHANGED <<formula, counts, left, right, outcome, records, scale, frames>>

(* the space key, the caret at the start or at the end of the text *)
InsertPlusSmart ==
  /\ Live
  /\ Len(ui.eqn) <= MaxInsertLen
  /\ \E caret \in {0, Len(ui.eqn)} :
       ui' = WithEquation(ui, normalizeSpaces(SubSeq(ui.eqn, 1, caret) \o SpacePlus
                                              \o SubSeq(ui.eqn, caret + 1, Len(ui.eqn))))
  /\ UNCHANGED <<formula, counts, left, right, outcome, records, scale, frames>>

HasArrow(s) == \E i \in 1..Len(s) : StartsAt(s, i, Arrow)

(* the arrow button: nothing is inserted when the text includes "->" *)
InsertArrow ==
  /\ Live
  /\ Len(ui.eqn) <= MaxInsertLen
  /\ ~HasArrow(ui.eqn)
  /\ \E caret \in {0, Len(ui.eqn)} :
       ui' = WithEquation(ui, SubSeq(ui.eqn, 1, caret) \o SpaceArrow
                              \o SubSeq(ui.eqn, caret + 1, Len(ui.eqn)))
  /\ UNCHANGED <<formula, counts, left, right, outcome, records, scale, frames>>

(* onInc of a chip: onChange(coeff + 1) *)
Increment ==
  /\ Live
  /\ \/ \E i \in 1..Len(ui.parsed.left) :
          /\ ShownCoeff(ui.coeffs.left, ui.parsed.left, i) < MaxCoeff
          /\ ui' = [ui EXCEPT !.coeffs.left =
                      SetAt(@, i, ShownCoeff(ui.coeffs.left, ui.parsed.left, i) + 1)]
     \/ \E i \in 1..Len(ui.parsed.right) :
          /\ ShownCoeff(ui.coeffs.right, ui.parsed.right, i) < MaxCoeff
          /\ ui' = [ui EXCEPT !.coeffs.right =
                      SetAt(@, i, ShownCoeff(ui.coeffs.right, ui.parsed.right, i) + 1)]
  /\ UNCHANGED <<formula, counts, left, right, outcome, records, scale, frames>>

Max0(v) == IF v < 0 THEN 0 ELSE v

(* onDec of a chip: onChange(Math.max(0, coeff - 1)) *)
Decrement ==
  /\ Live
  /\ \/ \E i \in 1..Len(ui.parsed.left) :
          /\ ShownCoeff(ui.coeffs.left, ui.parsed.left, i) <= MaxCoeff
          /\ ui' = [ui EXCEPT !.coeffs.left =
                      SetAt(@, i, Max0(ShownCoeff(ui.coeffs.left, ui.parsed.left, i) - 1))]
     \/ \E i \in 1..Len(ui.parsed.right) :
          /\ ShownCoeff(ui.coeffs.right, ui.parsed.right, i) <= MaxCoeff
          /\ ui' = [ui EXCEPT !.coeffs.right =
                      SetAt(@, i, Max0(ShownCoeff(ui.coeffs.right, ui.parsed.right, i) - 1))]
  /\ UNCHANGED <<formula, counts, left, right, outcome, records, scale, frames>>

(* setCoeffs(initCoeffs) *)
ResetCoeffs ==
  /\ Live
  /\ ui' = [ui EXCEPT !.coeffs = InlineCoeffs(ui.parsed)]
  /\ UNCHANGED <<formula, counts, left, right, outcome, records, scale, frames>>

GetHint ==
  /\ Live
  /\ ui' = [ui EXCEPT !.hintUsed = TRUE]
  /\ UNCHANGED <<formula, counts, left, right, outcome, records, scale, frames>>

Stored(u, solution) ==
  IF solution.isNull THEN u
  ELSE [u EXCEPT !.coeffs = [left |-> solution.left, right |-> solution.right]]

(* onClick of Auto solve: if (parsed) { ...; if (solution) setCoeffs(solution) } *)
AutoSolve ==
  /\ Live
  /\ AutoSolveShown(ui)
  /\ ui' = IF ui.parsed.isNull THEN ui ELSE Stored(ui, SolutionOfParsed(ui.parsed))
  /\ UNCHANGED <<formula, counts, left, right, outcome, records, scale, frames>>

UINext ==
  \/ EditEquation
  \/ RandomExample
  \/ InsertPlusSmart
  \/ InsertArrow
  \/ Increment
  \/ Decrement
  \/ ResetCoeffs
  \/ GetHint
  \/ AutoSolve

SpecUI == UIInit /\ [][UINext]_vars

----------------------------------------------------------------------------
(* Reference notions used to state the parser claims *)

(* nesting depth after each of the first k tokens *)
TokDepth(toks) ==
  LET d[k \in 0..Len(toks)] ==
        IF k = 0 THEN 0
        ELSE d[k - 1] + (IF IsOpener(toks[k]) THEN 1
                         ELSE IF IsCloser(toks[k]) THEN -1 ELSE 0)
  IN d

ProperlyNested(toks) ==
  LET d == TokDepth(toks)
  IN (\A k \in 0..Len(toks) : d[k] >= 0) /\ d[Len(toks)] = 0

DotFree(f) == \A i \in 1..Len(f) : f[i] \notin DotSet

Balanced(f) == DotFree(f) /\ ProperlyNested(tokenizeFormula(f))

SymbolsOf(toks) == {toks[k].symbol : k \in {i \in 1..Len(toks) : toks[i].type = "elem"}}

(* element symbols with optional multiplicities and properly nested groups, *)
(* each optionally followed by a multiplier; nothing else                   *)
GroupFormula(f) ==
  LET toks == tokenizeFormula(f)
  IN /\ \A i \in 1..Len(f) : f[i] \in UpperSet \cup LowerSet \cup DigitSet \cup ParenSet
     /\ \A i \in 1..Len(f) : f[i] \in LowerSet => i > 1 /\ f[i - 1] \in UpperSet
     /\ ProperlyNested(toks)
     /\ \A k \in 1..Len(toks) : toks[k].type = "num" => k > 1 /\ IsCloser(toks[k - 1])

(* the closer that ends the group opened at token q *)
CloserOf(toks, q) ==
  LET d == TokDepth(toks)
  IN CHOOSE c \in (q + 1)..Len(toks) :
       d[c] = d[q] - 1 /\ \A c2 \in (q + 1)..(c - 1) : d[c2] >= d[q]

GroupMult(toks, q) ==
  LET c == CloserOf(toks, q)
  IN IF c + 1 <= Len(toks) /\ toks[c + 1].type = "num" THEN toks[c + 1].count ELSE 1

Enclosing(toks, p) ==
  {q \in 1..(p - 1) : IsOpener(toks[q]) /\ CloserOf(toks, q) > p}

(* sum over the occurrences of e of multiplicity times enclosing multipliers *)
ExpectedCount(toks, e) ==
  LET occ == {p \in 1..Len(toks) : toks[p].type = "elem" /\ toks[p].symbol = e}
      mult == [q \in 1..Len(toks) |-> IF IsOpener(toks[q]) THEN GroupMult(toks, q) ELSE 1]
      term == [p \in occ |-> toks[p].count * ProdOf(Enclosing(toks, p), mult)]
  IN SumOf(occ, term)

SameCounts(a, b) == \A e \in DOMAIN a \cup DOMAIN b : Get(a, e) = Get(b, e)

ScaledSum(a, n, b) == [e \in DOMAIN a \cup DOMAIN b |-> Get(a, e) + n * Get(b, e)]

AllDigits(s) == s # <<>> /\ \A i \in 1..Len(s) : s[i] \in DigitSet

(* the ways to read formula f as X + dot + N + Y: the dot is at p and the   *)
(* numeral N ends at q                                                      *)
HydrateSplits(f) ==
  {pq \in (1..Len(f)) \X (1..Len(f)) :
     /\ pq[1] < pq[2]
     /\ f[pq[1]] \in DotSet
     /\ AllDigits(SubSeq(f, pq[1] + 1, pq[2]))
     /\ parseInt(SubSeq(f, pq[1] + 1, pq[2])) > 0
     /\ Balanced(SubSeq(f, 1, pq[1] - 1))
     /\ Balanced(SubSeq(f, pq[2] + 1, Len(f)))}

HydrateHolds(f, pq, c) ==
  LET X == SubSeq(f, 1, pq[1] - 1)
      Y == SubSeq(f, pq[2] + 1, Len(f))
      N == parseInt(SubSeq(f, pq[1] + 1, pq[2]))
      cx == countElementsInFormula(X)
      cy == countElementsInFormula(Y)
  IN /\ c.kind = "value" /\ cx.kind = "value" /\ cy.kind = "value"
     /\ SameCounts(c.map, ScaledSum(cx.map, N, cy.map))

StartsWithDigit(f) ==
  LET s == StripWhitespace(f) IN s # <<>> /\ s[1] \in DigitSet

----------------------------------------------------------------------------
(* Reference notions used to state the solver claims *)

MatrixA == buildElementMatrix(left, right).A

Elements == buildElementMatrix(left, right).elements

Solved == outcome.op = "solveEquation"

Analyzed == outcome.op = "analyzeBalanceability"

(* the coefficients of a non-null result, left then right *)
Coeffs == outcome.res.left \o outcome.res.right

NonNull == Solved /\ ~outcome.res.raised /\ ~outcome.res.isNull

Suggested ==
  Analyzed /\ ~outcome.res.raised /\ outcome.res.balanceableAllSpecies
           /\ ~outcome.res.suggestion.isNull

(* A x = 0, row by row *)
IsNullVector(A, x) ==
  \A i \in 1..Len(A) :
    Len(x) = Len(A[i]) /\ SumOf(1..Len(x), [j \in 1..Len(x) |-> A[i][j] * x[j]]) = 0

AllPositive(x) == \A j \in 1..Len(x) : x[j] >= 1

NoCommonFactor(x) ==
  \A d \in 2..(SumOf(1..Len(x), [j \in 1..Len(x) |-> Abs(x[j])]) + 2) :
    \E j \in 1..Len(x) : x[j] % d # 0

Nullity == Len(nullspace(MatrixA))

StrictOneSign(v) ==
  \/ \A j \in 1..Len(v) : v[j].num > 0
  \/ \A j \in 1..Len(v) : v[j].num < 0

MixedSigns(v) ==
  (\E j \in 1..Len(v) : v[j].num > 0) /\ (\E j \in 1..Len(v) : v[j].num < 0)

SearchBound == 3

RECURSIVE CombineTo(_,_,_,_)
CombineTo(basis, k, i, j) ==
  IF i = 0 THEN makeFrac(0, 1)
  ELSE fAdd(CombineTo(basis, k, i - 1, j), fMul(makeFrac(k[i], 1), basis[i][j]))

Combine(basis, k) == [j \in 1..Len(basis[1]) |-> CombineTo(basis, k, Len(basis), j)]

(* some integer combination of the basis with coefficients in -3..3 has     *)
(* every entry strictly of the same sign                                    *)
FeasibleWithinBound(basis) ==
  \E k \in [1..Len(basis) -> (-SearchBound)..SearchBound] :
    StrictOneSign(Combine(basis, k))

(* the result is the null/negative one: null from solveEquation, and        *)
(* balanceableAllSpecies = false without a suggestion from                  *)
(* analyzeBalanceability                                                    *)
NegativeResult ==
  IF Solved THEN outcome.res.isNull
  ELSE ~outcome.res.balanceableAllSpecies /\ outcome.res.suggestion.isNull

(* the candidate vector of fracsToIntegerCoeffs before its re-verification *)
HasCandidate ==
  /\ Len(MatrixA) > 0
  /\ solveRationalForLastColumn(MatrixA).kind = "value"

Candidate == ReduceByGcd(AbsVector(IntegerVector(solveRationalForLastColumn(MatrixA).x)))

----------------------------------------------------------------------------
(* Solver claims *)

(* C1: a non-null result of solveEquation, left then right, multiplied by   *)
(* the matrix of buildElementMatrix gives 0 in every row; a candidate that  *)
(* fails the re-verification is discarded and null is returned.             *)
C1_Soundness ==
  Solved =>
    /\ NonNull => IsNullVector(MatrixA, Coeffs)
    /\ (HasCandidate /\ ~IsNullVector(MatrixA, Candidate)) => outcome.res.isNull

C1_Witness ==
  /\ left = <<F_C3H8, F_O2>> /\ right = <<F_CO2, F_H2O>>
  /\ NonNull
  /\ Coeffs = <<1, 5, 3, 4>>

(* C2: every coefficient of every non-null result of solveEquation, and of  *)
(* every suggestion of analyzeBalanceability, is >= 1.                      *)
C2_Positivity ==
  /\ NonNull => AllPositive(Coeffs)
  /\ Suggested =>
       AllPositive(outcome.res.suggestion.left \o outcome.res.suggestion.right)

(* C3: the coefficients of a non-null result of solveEquation have no       *)
(* common divisor greater than 1.                                           *)
C3_Minimality == NonNull => NoCommonFactor(Coeffs)

C3_Witness ==
  /\ NonNull
  /\ Coeffs[1] = 0
  /\ \E j \in 1..Len(Coeffs) : Coeffs[j] >= 2
  /\ NoCommonFactor(Coeffs)

(* C4: with exactly one free column, solveEquation returns the gcd-reduced  *)
(* all-positive null vector when the null-space direction has all entries   *)
(* strictly of one sign, and null otherwise; propane gives 1, 5 -> 3, 4.    *)
C4_NullityOne ==
  Solved =>
    /\ Nullity = 1 =>
         IF StrictOneSign(nullspace(MatrixA)[1])
           THEN /\ NonNull
                /\ AllPositive(Coeffs)
                /\ IsNullVector(MatrixA, Coeffs)
                /\ NoCommonFactor(Coeffs)
           ELSE outcome.res.isNull
    /\ (left = <<F_C3H8, F_O2>> /\ right = <<F_CO2, F_H2O>>) =>
         NonNull /\ Coeffs = <<1, 5, 3, 4>>

(* C5: with two or more free columns, when some combination of the basis    *)
(* with coefficients in -3..3 has every entry strictly of the same sign,    *)
(* solveEquation returns a solution whose coefficients are all >= 1, and it *)
(* returns null only when there is no such combination.                     *)
C5_NullityAboveOne ==
  (Solved /\ Nullity >= 2) =>
    /\ FeasibleWithinBound(nullspace(MatrixA)) => NonNull /\ AllPositive(Coeffs)
    /\ outcome.res.isNull => ~FeasibleWithinBound(nullspace(MatrixA))

(* C6: a non-null result has one left entry per left species and one right  *)
(* entry per right species, and entry i is the coefficient of species i of  *)
(* its side: weighting the species' own counts by them balances every       *)
(* element.                                                                 *)
C6_Shape ==
  NonNull =>
    /\ Len(outcome.res.left) = Len(left)
    /\ Len(outcome.res.right) = Len(right)
    /\ \A i \in 1..Len(Elements) :
         SumOf(1..Len(left),
               [j \in 1..Len(left) |-> outcome.res.left[j] * Get(countFn(left[j]), Elements[i])])
         = SumOf(1..Len(right),
                 [k \in 1..Len(right) |->
                    outcome.res.right[k] * Get(countFn(right[k]), Elements[i])])

C6_Witness ==
  /\ left = <<F_H2, F_O2>> /\ right = <<F_H2O>>
  /\ NonNull
  /\ outcome.res.left = <<2, 1>>
  /\ outcome.res.right = <<2>>

(* C8: solveEquation and analyzeBalanceability never raise, and give the    *)
(* negative result when there are no species, no elements, a single         *)
(* species, only the trivial null space, or a null-space direction of mixed *)
(* signs.                                                                   *)
C8_Infeasible ==
  (Solved \/ Analyzed) =>
    /\ ~outcome.res.raised
    /\ Len(left) + Len(right) = 0 => NegativeResult
    /\ Len(Elements) = 0 => NegativeResult
    /\ Len(left) + Len(right) = 1 => NegativeResult
    /\ Nullity = 0 => NegativeResult
    /\ (Nullity = 1 /\ MixedSigns(nullspace(MatrixA)[1])) => NegativeResult

C8_Witness ==
  /\ Analyzed
  /\ Nullity = 1
  /\ MixedSigns(nullspace(MatrixA)[1])
  /\ Len(left) + Len(right) >= 3
  /\ ~outcome.res.raised
  /\ NegativeResult

----------------------------------------------------------------------------
(* Parser claims *)

(* C7: countElementsInFormula returns an ElementCount for every input       *)
(* string and never raises.                                                 *)
C7_NeverRaises == counts.kind # "throw"

(* C9: for a formula of element symbols and properly nested multiplied      *)
(* groups, countElementsInFormula returns for each element the sum over its *)
(* occurrences of multiplicity times the product of the enclosing group     *)
(* multipliers.                                                             *)
C9_GroupMultipliers ==
  (counts.kind # "pending" /\ GroupFormula(formula)) =>
    /\ counts.kind = "value"
    /\ \A e \in DOMAIN counts.map \cup SymbolsOf(tokenizeFormula(formula)) :
         Get(counts.map, e) = ExpectedCount(tokenizeFormula(formula), e)

C9_Witness ==
  /\ formula = <<"K","4","[","F","e","(","C","N",")","6","]">>
  /\ GroupFormula(formula)
  /\ counts.kind = "value"
  /\ counts.map = [e \in {<<"K">>, <<"F","e">>, <<"C">>, <<"N">>} |->
                     IF e = <<"K">> THEN 4 ELSE IF e = <<"F","e">> THEN 1 ELSE 6]

(* C10 as stated: for every reading of the formula as X + dot + N + Y with  *)
(* X and Y bracket-balanced and dot-free and N a positive integer, the      *)
(* counts are count(X) plus N times count(Y).                               *)
C10_HydrateAnyY ==
  counts.kind # "pending" =>
    \A pq \in HydrateSplits(formula) : HydrateHolds(formula, pq, counts)

(* C10 amended: the same, for the readings in which Y does not begin (after *)
(* leading whitespace) with a digit.                                        *)
C10_Hydrate ==
  counts.kind # "pending" =>
    \A pq \in HydrateSplits(formula) :
      ~StartsWithDigit(SubSeq(formula, pq[2] + 1, Len(formula))) =>
        HydrateHolds(formula, pq, counts)

C10_Witness ==
  /\ formula = <<"C","u","S","O","4","·","5","H","2","O">>
  /\ <<6, 7>> \in HydrateSplits(formula)
  /\ counts.kind = "value"
  /\ counts.map = [e \in {<<"C","u">>, <<"S">>, <<"O">>, <<"H">>} |->
                     IF e = <<"O">> THEN 9 ELSE IF e = <<"H">> THEN 10 ELSE 1]

(* C11: every entry of the mapping returned by countElementsInFormula has a *)
(* count of at least 1; no symbol is present with count 0.                  *)
C11_CountsPositive ==
  counts.kind = "value" => \A e \in DOMAIN counts.map : counts.map[e] >= 1

(* the string with every whitespace character removed *)
RECURSIVE WithoutWhitespace(_)
WithoutWhitespace(s) ==
  IF s = <<>> THEN <<>>
  ELSE IF Head(s) \in WhitespaceSet THEN WithoutWhitespace(Tail(s))
  ELSE <<Head(s)>> \o WithoutWhitespace(Tail(s))

HasWhitespace(s) == \E i \in 1..Len(s) : s[i] \in WhitespaceSet

(* C12: tokenizeFormula(s) equals tokenizeFormula(s without its whitespace), *)
(* and countElementsInFormula gives the same result for both strings.        *)
C12_WhitespaceInsensitive ==
  /\ outcome.op = "tokenizeFormula" =>
        outcome.res = tokenizeFormula(WithoutWhitespace(formula))
  /\ counts.kind # "pending" =>
        counts = countElementsInFormula(WithoutWhitespace(formula))

C12_Witness ==
  /\ formula = <<" "," ","C","a","3"," ","("," ","P","O","4"," ",")","2"," "," "," ">>
  /\ HasWhitespace(formula)
  /\ outcome.op = "tokenizeFormula"
  /\ Len(outcome.res) = 6
  /\ counts.kind = "value"
  /\ counts.map = [e \in {<<"C","a">>, <<"P">>, <<"O">>} |->
                     IF e = <<"C","a">> THEN 3 ELSE IF e = <<"P">> THEN 2 ELSE 8]

----------------------------------------------------------------------------
(* Reference notions used to state the text claims *)

SpecialSet == {"-", "=", "<", ">"} \cup ArrowChars

SpecialIndexes(s) == {i \in 1..Len(s) : s[i] \in SpecialSet}

Least(S) == CHOOSE x \in S : \A y \in S : x <= y

Greatest(S) == CHOOSE x \in S : \A y \in S : y <= x

(* "->", "=>", a Unicode arrow, or a run of '-' or of '=' followed by '>' *)
IsArrowSpelling(a) ==
  \/ Len(a) = 1 /\ a[1] \in ArrowChars
  \/ /\ Len(a) >= 2
     /\ a[Len(a)] = ">"
     /\ a[1] \in {"-", "="}
     /\ \A i \in 1..(Len(a) - 1) : a[i] = a[1]

(* the string reads L + a + R with L and R free of arrow characters *)
ReadsAsArrowed(s) ==
  /\ SpecialIndexes(s) # {}
  /\ IsArrowSpelling(SubSeq(s, Least(SpecialIndexes(s)), Greatest(SpecialIndexes(s))))

Canonical(s) ==
  SubSeq(s, 1, Least(SpecialIndexes(s)) - 1) \o Arrow
    \o SubSeq(s, Greatest(SpecialIndexes(s)) + 1, Len(s))

ArrowIndexes(t) == {i \in 1..(Len(t) - 1) : t[i] = "-" /\ t[i + 1] = ">"}

NonBlank(s, a, b) == {j \in a..b : s[j] \notin WhitespaceSet}

(* the trimmed non-empty '+'-separated chunks of s[from..Len(s)], in order *)
RECURSIVE ChunksFrom(_,_)
ChunksFrom(s, from) ==
  IF from > Len(s) + 1 THEN <<>>
  ELSE LET stops == {i \in from..Len(s) : s[i] = "+"} \cup {Len(s) + 1}
           stop == Least(stops)
           inside == NonBlank(s, from, stop - 1)
       IN (IF inside = {} THEN <<>> ELSE <<SubSeq(s, Least(inside), Greatest(inside))>>)
            \o ChunksFrom(s, stop + 1)

SplitDone == outcome.op = "splitEquation"

----------------------------------------------------------------------------
(* Text claims *)

(* C13: when the input reads L + a + R with L and R free of '-', '=', '<',  *)
(* '>' and Unicode arrows and a an arrow spelling, splitEquation returns    *)
(* what it returns for L + "->" + R.                                        *)
C13_ArrowNormalisation ==
  (SplitDone /\ ReadsAsArrowed(formula)) =>
    outcome.res = splitEquation(Canonical(formula))

C13_Witness ==
  /\ SplitDone
  /\ formula = T_LongArrow
  /\ ReadsAsArrowed(formula)
  /\ outcome.res = [isNull |-> FALSE, left |-> <<<<"H","2">>, <<"O","2">>>>,
                    right |-> <<<<"H","2","O">>>>]

(* C14: splitEquation returns null when normalisation yields no canonical   *)
(* arrow or more than one, and a non-null {left, right} exactly when it     *)
(* yields one.                                                              *)
C14_ArrowCount ==
  SplitDone =>
    (outcome.res.isNull <=> Cardinality(ArrowIndexes(normalizeArrow(formula))) # 1)

C14_Witness ==
  /\ SplitDone
  /\ Cardinality(ArrowIndexes(normalizeArrow(formula))) = 2
  /\ outcome.res.isNull

(* C15: with exactly one arrow, each side of the result is the sequence of  *)
(* the '+'-separated chunks of that side in input order, each trimmed, and  *)
(* no chunk is the empty string.                                            *)
C15_SideSplitting ==
  (SplitDone /\ Cardinality(ArrowIndexes(normalizeArrow(formula))) = 1) =>
    LET t == normalizeArrow(formula)
        a == Least(ArrowIndexes(t))
    IN /\ ~outcome.res.isNull
       /\ outcome.res.left = ChunksFrom(SubSeq(t, 1, a - 1), 1)
       /\ outcome.res.right = ChunksFrom(SubSeq(t, a + 2, Len(t)), 1)
       /\ \A i \in 1..Len(outcome.res.left) : outcome.res.left[i] # <<>>
       /\ \A i \in 1..Len(outcome.res.right) : outcome.res.right[i] # <<>>

C15_Witness ==
  /\ SplitDone
  /\ formula = T_Iron
  /\ outcome.res.left = <<<<"F","e">>, <<"O","2">>>>
  /\ outcome.res.right = <<<<"F","e","2","O","3">>>>

(* C16: parseSpecies returns as coefficient the value of the digits at the  *)
(* start of the chunk (after leading whitespace), a positive integer, or 1  *)
(* when there is no such digit, and as formula the remaining text trimmed.  *)
C16_ParseSpecies ==
  outcome.op = "parseSpecies" =>
    LET ws == SetRunEnd(formula, 1, WhitespaceSet)
        de == SetRunEnd(formula, ws, DigitSet)
    IN IF de > ws
         THEN /\ outcome.res.coeff = parseInt(SubSeq(formula, ws, de - 1))
              /\ outcome.res.coeff >= 1
              /\ outcome.res.formula = Trim(SubSeq(formula, de, Len(formula)))
         ELSE /\ outcome.res.coeff = 1
              /\ outcome.res.formula = Trim(formula)

----------------------------------------------------------------------------
(* Claims about multiplyCounts and sumCounts *)

(* C17: multiplyCounts(c, k) has exactly the keys of c and maps each e to   *)
(* c[e] * k; multiplyCounts(c, 1) equals c and so does                      *)
(* sumCounts([multiplyCounts(c, 1)]).                                       *)
C17_Scaling ==
  /\ outcome.op = "multiplyCounts" =>
       /\ DOMAIN outcome.res = DOMAIN records[1]
       /\ \A e \in DOMAIN records[1] : outcome.res[e] = records[1][e] * scale
       /\ scale = 1 => outcome.res = records[1]
  /\ (outcome.op = "sumScaled" /\ Len(records) = 1 /\ scale = 1) =>
       outcome.res = records[1]

C17_Witness ==
  /\ outcome.op = "sumScaled"
  /\ Len(records) = 1
  /\ scale = 1
  /\ frames = <<>>
  /\ ui = NoUI
  /\ \E e \in DOMAIN records[1] : records[1][e] = 0
  /\ outcome.res = records[1]

(* C18: the keys of sumCounts(list) are the union of the members' keys, and *)
(* each value is the sum over the members of the member's value, 0 when     *)
(* absent.                                                                  *)
C18_Additivity ==
  outcome.op = "sumCounts" =>
    /\ DOMAIN outcome.res = UNION {DOMAIN records[i] : i \in 1..Len(records)}
    /\ \A e \in DOMAIN outcome.res :
         outcome.res[e] = SumOf(1..Len(records), [i \in 1..Len(records) |-> Get(records[i], e)])

C18_Witness ==
  /\ outcome.op = "sumCounts"
  /\ records = <<R_TwoCO2, R_ThreeH2O>>
  /\ outcome.res = [e \in {<<"C">>, <<"H">>, <<"O">>} |->
                      IF e = <<"C">> THEN 2 ELSE IF e = <<"H">> THEN 6 ELSE 7]

----------------------------------------------------------------------------
(* Determinism *)

(* the keys are in strictly ascending order of symbol *)
Ascending(keys) == \A i \in 1..Len(keys) : \A j \in (i + 1)..Len(keys) : SymLess(keys[i], keys[j])

(* the result countElementsInFormula builds from an accumulator *)
Returned(acc) == IF acc.kind = "value" THEN acc ELSE TypeError

SameResults ==
  /\ (outcome.op = "countElementsInFormula" /\ counts.kind # "pending") =>
       outcome.res.kind = counts.kind /\ outcome.res.map = counts.map
  /\ outcome.op = "countElementsInFormula" =>
       /\ Ascending(outcome.res.keys)
       /\ SeqRange(outcome.res.keys) = DOMAIN outcome.res.map
  /\ (outcome.op = "tokensToCounts" /\ counts.kind # "pending") =>
       counts = Returned(outcome.out)

ArgumentsKept ==
  /\ formula' = formula
  /\ counts.kind # "pending" => counts' = counts
  /\ outcome.op = "tokenizeFormula" => outcome'.res = outcome.res
  /\ scale' = scale

----------------------------------------------------------------------------
(* Matrix construction *)

Built == outcome.op = "buildElementMatrix"

(* the symbols of the counts of every formula of either side *)
AllSymbols ==
  UNION ({DOMAIN countElementsInFormula(left[j]).map : j \in 1..Len(left)}
           \cup {DOMAIN countElementsInFormula(right[k]).map : k \in 1..Len(right)})

(* C20: elements is the duplicate-free sorted union of the symbols of every *)
(* formula; A has one row per element and one column per species, holding   *)
(* the count of the element in a left species and the negated count in a    *)
(* right species (0 when absent); without species or elements A has no row. *)
C20_MatrixConstruction ==
  Built =>
    LET A == outcome.res.A
        elements == outcome.res.elements
    IN /\ SeqRange(elements) = AllSymbols
       /\ Ascending(elements)
       /\ Len(A) = Len(elements)
       /\ \A i \in 1..Len(A) :
            /\ Len(A[i]) = Len(left) + Len(right)
            /\ \A j \in 1..Len(left) :
                 A[i][j] = Get(countElementsInFormula(left[j]).map, elements[i])
            /\ \A k \in 1..Len(right) :
                 A[i][Len(left) + k] = -Get(countElementsInFormula(right[k]).map, elements[i])
       /\ (Len(left) + Len(right) = 0 \/ AllSymbols = {}) => A = <<>>

C20_Witness ==
  /\ Built
  /\ left = <<F_C3H8, F_O2>>
  /\ right = <<F_CO2, F_H2O>>
  /\ outcome.res.elements = <<<<"C">>, <<"H">>, <<"O">>>>
  /\ outcome.res.A = <<<<3, 0, -1, 0>>, <<8, 0, 0, -2>>, <<0, 2, -2, -1>>>>

----------------------------------------------------------------------------
(* Tokenisation *)

Tokenized == outcome.op \in {"tokenizeFormula", "tokensToCounts"}

(* position q of s comes directly after an element symbol *)
AfterSymbol(s, q) ==
  \/ At(s, q - 1) \in UpperSet
  \/ At(s, q - 1) \in LowerSet /\ At(s, q - 2) \in UpperSet

(* position q starts a maximal digit run *)
StartsDigits(s, q) == At(s, q) \in DigitSet /\ At(s, q - 1) \notin DigitSet

(* the value of the maximal digit run at q, or 1 when there is none *)
Multiplicity(s, q) ==
  IF At(s, q) \in DigitSet THEN parseInt(SubSeq(s, q, SetRunEnd(s, q, DigitSet) - 1)) ELSE 1

SymbolAt(s, p) == IF At(s, p + 1) \in LowerSet THEN <<s[p], s[p + 1]>> ELSE <<s[p]>>

(* the positions that produce an element or a standalone integer token *)
ElementOrNumberAt(s) ==
  {p \in 1..Len(s) : s[p] \in UpperSet \/ (StartsDigits(s, p) /\ ~AfterSymbol(s, p))}

DotOrBracketAt(s) == {p \in 1..Len(s) : s[p] \in DotSet \cup ParenSet}

TokenAt(s, p) ==
  IF s[p] \in UpperSet
    THEN ElemToken(SymbolAt(s, p), Multiplicity(s, p + Len(SymbolAt(s, p))))
  ELSE IF s[p] \in DigitSet THEN NumToken(Multiplicity(s, p))
  ELSE IF s[p] \in DotSet THEN DotToken
  ELSE ParenToken(s[p])

(* the tokens of the positions P of s, in position order *)
RECURSIVE TokensAt(_,_)
TokensAt(s, P) ==
  IF P = {} THEN <<>> ELSE <<TokenAt(s, Least(P))>> \o TokensAt(s, P \ {Least(P)})

(* C21 as stated: the tokens are the element tokens of the uppercase        *)
(* positions and the integer tokens of the digit runs not directly after a  *)
(* symbol; every other character produces no token.                         *)
C21_OnlyElementsAndNumbers ==
  Tokenized =>
    outcome.res = TokensAt(WithoutWhitespace(formula),
                           ElementOrNumberAt(WithoutWhitespace(formula)))

(* C21 amended: the same, where a dot and a bracket produce a dot and a     *)
(* bracket token and every character other than these produces no token.   *)
C21_Tokenisation ==
  Tokenized =>
    outcome.res = TokensAt(WithoutWhitespace(formula),
                           ElementOrNumberAt(WithoutWhitespace(formula))
                             \cup DotOrBracketAt(WithoutWhitespace(formula)))

C21_Witness ==
  /\ Tokenized
  /\ formula = <<"e", "H", "e", "2">>
  /\ outcome.res = <<ElemToken(<<"H", "e">>, 2)>>

----------------------------------------------------------------------------
(* Standalone integer prefixes *)

(* the opener of the group that the closer at token c ends *)
OpenerOf(toks, c) == CHOOSE q \in 1..(c - 1) : IsOpener(toks[q]) /\ CloserOf(toks, q) = c

(* pre[i]: the integer token at i is a prefix, not the multiplier of the    *)
(* group closed just before it.  The integer after the closer of a prefixed *)
(* group is a prefix too: the prefixed group is evaluated on its own.       *)
PrefixAt(toks) ==
  LET pre[i \in 0..Len(toks)] ==
        IF i = 0 THEN FALSE
        ELSE /\ toks[i].type = "num"
             /\ (i > 1 /\ IsCloser(toks[i - 1])) => pre[OpenerOf(toks, i - 1) - 1]
  IN pre

(* the factor of the group opened at q: its prefix, else its multiplier *)
GroupFactor(toks, q) ==
  IF PrefixAt(toks)[q - 1] THEN toks[q - 1].count ELSE GroupMult(toks, q)

(* the factor of the element at p: the prefix directly before it, else 1 *)
ElementFactor(toks, p) == IF PrefixAt(toks)[p - 1] THEN toks[p - 1].count ELSE 1

PrefixedCount(toks, e) ==
  LET occ == {p \in 1..Len(toks) : toks[p].type = "elem" /\ toks[p].symbol = e}
      factor == [q \in 1..Len(toks) |-> IF IsOpener(toks[q]) THEN GroupFactor(toks, q) ELSE 1]
      term == [p \in occ |->
                 toks[p].count * ElementFactor(toks, p) * ProdOf(Enclosing(toks, p), factor)]
  IN SumOf(occ, term)

HasPrefix(toks) == \E i \in 1..Len(toks) : PrefixAt(toks)[i]

Counted == counts.kind # "pending"

(* C22: in a dot-free formula with properly nested brackets a standalone    *)
(* integer N multiplies exactly the next unit: the element token after it,  *)
(* or the group from the opening bracket after it to the depth-matched      *)
(* closing bracket; before anything else or at the end it is ignored, and   *)
(* the tokens after the unit are counted unscaled.                          *)
C22_IntegerPrefix ==
  (Counted /\ Balanced(formula)) =>
    /\ counts.kind = "value"
    /\ \A e \in DOMAIN counts.map \cup SymbolsOf(tokenizeFormula(formula)) :
         Get(counts.map, e) = PrefixedCount(tokenizeFormula(formula), e)

C22_Witness ==
  /\ Counted
  /\ formula = <<"2","(","N","(","H",")","3",")","O">>
  /\ Balanced(formula)
  /\ HasPrefix(tokenizeFormula(formula))
  /\ counts.map = [e \in {<<"N">>, <<"H">>, <<"O">>} |->
                     IF e = <<"N">> THEN 2 ELSE IF e = <<"H">> THEN 6 ELSE 1]

----------------------------------------------------------------------------
(* Termination of the loops *)

Finished == outcome.done

(* the iteration of tokenizeFormula moves the index forward *)
ScanProgress ==
  (outcome.op = "tokenizeFormula" /\ ~outcome'.done) => outcome'.i > outcome.i

(* a step of tokensToCounts moves the index of the running call forward,    *)
(* calls itself on a strictly shorter sequence, or returns to a caller      *)
(* whose index has moved forward                                            *)
EvalProgress ==
  (outcome.op = "tokensToCounts" /\ ~outcome'.done) =>
    \/ /\ Len(frames') = Len(frames)
       /\ frames'[Len(frames)].i > frames[Len(frames)].i
    \/ /\ Len(frames') = Len(frames) + 1
       /\ Len(frames'[Len(frames')].tokens) < Len(frames[Len(frames)].tokens)
    \/ /\ Len(frames') = Len(frames) - 1
       /\ frames'[Len(frames')].i > frames[Len(frames')].i

ExaminedBound ==
  outcome.op = "findSignedFeasibleSolution" =>
    outcome.examined <= Power(6, Len(outcome.basis))

(* C23: tokenizeFormula and tokensToCounts terminate on every finite input, *)
(* the index strictly increasing in every iteration and every recursive     *)
(* call of tokensToCounts being on a strictly shorter sequence, and         *)
(* findSignedFeasibleSolution examines at most 6^B combinations for a basis *)
(* of B vectors and then returns.                                           *)
C23_Termination ==
  /\ [][ScanProgress /\ EvalProgress]_vars
  /\ []ExaminedBound
  /\ <>Finished

(* the integer followed by a bracket never closed has been evaluated: the   *)
(* sub-call on the rest returned and the caller finished                    *)
C23_Witness ==
  /\ formula = <<"2", "(", "H">>
  /\ outcome.op = "tokensToCounts"
  /\ outcome.done
  /\ outcome.res = Value(EmptyMap)

----------------------------------------------------------------------------
(* The nullity field *)

(* C26: the nullity field returned by analyzeBalanceability equals the      *)
(* number of free columns of the element matrix, the dimension of its null  *)
(* space, with a suggestion and without.                                    *)
C26_NullityReported ==
  (Analyzed /\ ~outcome.res.raised) => outcome.res.nullity = Nullity

----------------------------------------------------------------------------
(* Fractions in normal form *)

Produced == outcome.op \in {"makeFrac", "fAdd", "fSub", "fMul", "fDiv"}

HeldFractions ==
  {outcome.st.B[r][j] : r \in 1..Len(outcome.st.B), j \in 1..(outcome.n - 1)}
    \cup {outcome.st.b[r] : r \in 1..Len(outcome.st.b)}

(* C24: every fraction produced by makeFrac, fAdd, fSub, fMul and fDiv (by  *)
(* a non-zero divisor) from operands in normal form has a positive          *)
(* denominator, is in lowest terms and is zero only as 0/1; so is every     *)
(* fraction held during the elimination of solveRationalForLastColumn.      *)
C24_NormalForm ==
  /\ Produced => InLowestTerms(outcome.res)
  /\ outcome.op = "eliminate" => \A f \in HeldFractions : InLowestTerms(f)

(* a proper fraction is held after a column has been eliminated *)
C24_Witness ==
  /\ outcome.op = "eliminate"
  /\ outcome.col > 1
  /\ \E f \in HeldFractions : f.den > 1

----------------------------------------------------------------------------
(* The integer vector of fracsToIntegerCoeffs *)

(* |v| in the digits of WideMagnitude *)
WideOf(v) ==
  IF v = -Int32Max - 1 THEN <<0, 0, 2, 0, 0>> ELSE Limbs(Abs(v)) \o <<0, 0>>

SameSign(v, x, y) ==
  IF x = 0 \/ y = 0 THEN v = 0 ELSE (v < 0) = ((x < 0) # (y < 0))

(* C25: the integer vector of fracsToIntegerCoeffs is the fraction vector   *)
(* scaled by the least common multiple of the denominators,                 *)
(* vec[i] = num_i * lcm / den_i, and the 32-bit coercion changes no value.  *)
C25_ExactScaling ==
  outcome.op = "fracsToIntegerCoeffs" =>
    \A i \in 1..Len(outcome.fv) :
      /\ WideOf(outcome.vec[i]) =
           WideMagnitude(outcome.fv[i].num, outcome.commonDen \div outcome.fv[i].den)
      /\ SameSign(outcome.vec[i], outcome.fv[i].num, outcome.commonDen \div outcome.fv[i].den)

----------------------------------------------------------------------------
(* The playground *)

(* the coefficients the chips show, left then right *)
Shown(u) ==
  [i \in 1..Len(u.parsed.left) |-> ShownCoeff(u.coeffs.left, u.parsed.left, i)]
    \o [i \in 1..Len(u.parsed.right) |-> ShownCoeff(u.coeffs.right, u.parsed.right, i)]

Inline(u) == InlineCoeffs(u.parsed).left \o InlineCoeffs(u.parsed).right

(* C27: once the effects of an equation edit have run, the coefficient      *)
(* shown for each species is the inline coefficient parsed from the         *)
(* current text (1 when none is typed), also when the edit keeps the number *)
(* of species on each side.                                                 *)
C27_InlineAfterEdit ==
  [][(ui'.mounted /\ ~ui'.crashed /\ ui'.eqn # ui.eqn) => Shown(ui') = Inline(ui')]_vars

LengthsMatch ==
  Live =>
    /\ Len(ui.coeffs.left) = Len(ui.parsed.left)
    /\ Len(ui.coeffs.right) = Len(ui.parsed.right)
    /\ ui.parsed.isNull => (ui.coeffs.left = <<>> /\ ui.coeffs.right = <<>>)

Changed(before, after) == {i \in 1..Len(before) : after[i] # before[i]}

OthersKept ==
  /\ Len(ui'.coeffs.left) = Len(ui.coeffs.left)
  /\ Len(ui'.coeffs.right) = Len(ui.coeffs.right)
  /\ Cardinality(Changed(ui.coeffs.left, ui'.coeffs.left))
       + Cardinality(Changed(ui.coeffs.right, ui'.coeffs.right)) <= 1

(* C28: in every settled state coeffs.left has as many entries as the       *)
(* parsed left species and coeffs.right as the right ones (none without a   *)
(* valid arrow), and changing the coefficient of one species leaves every   *)
(* other coefficient of both sides unchanged.                               *)
C28_OneToOne == []LengthsMatch /\ [][(Increment \/ Decrement) => OthersKept]_vars

(* the first chip of H2 + O2 -> H2O has been stepped up *)
C28_Witness ==
  /\ Live
  /\ ui.eqn = V_Water
  /\ ui.coeffs = [left |-> <<2, 1>>, right |-> <<1>>]

MatrixOf(u) == buildElementMatrix(FormulasOf(u.parsed.left), FormulasOf(u.parsed.right)).A

(* A x = 0 with at least one row *)
ExactBalance(A, x) == Len(A) >= 1 /\ \A i \in 1..Len(A) : RowSum(A[i], x) = 0

BalancedAsMatrix ==
  Live => (CountsOf(ui).balanced <=> ExactBalance(MatrixOf(ui), Shown(ui)))

(* the coefficients are the non-null solution Auto solve stores *)
SolutionShown(solution) ==
  /\ ~solution.isNull
  /\ ui.coeffs = [left |-> solution.left, right |-> solution.right]

BalancedWhenSolved ==
  (Live /\ ~ui.parsed.isNull /\ SolutionShown(SolutionOfParsed(ui.parsed)))
    => CountsOf(ui).balanced

(* C29: when Auto solve stores a non-null solution the next computed state  *)
(* has balanced = true, and the balanced flag computed with multiplyCounts  *)
(* and sumCounts is true exactly when A x = 0 for the matrix A of           *)
(* buildElementMatrix and the current coefficients x, and A has a row.      *)
C29_AutoSolveBalances == BalancedWhenSolved /\ BalancedAsMatrix

(* the solution of the propane equation is stored and shown as balanced *)
C29_Witness ==
  /\ Live
  /\ ui.eqn = E_Propane
  /\ ui.coeffs = [left |-> <<1, 5>>, right |-> <<3, 4>>]
  /\ CountsOf(ui).balanced

OneChipStepped ==
  /\ OthersKept
  /\ \A i \in Changed(ui.coeffs.left, ui'.coeffs.left) :
       ui'.coeffs.left[i] - ui.coeffs.left[i] \in {-1, 1}
  /\ \A i \in Changed(ui.coeffs.right, ui'.coeffs.right) :
       ui'.coeffs.right[i] - ui.coeffs.right[i] \in {-1, 1}

(* the coefficients are replaced by values that are neither the inline ones *)
(* nor one step of one chip                                                 *)
Overwritten ==
  /\ ui'.mounted /\ ~ui'.crashed
  /\ ui'.coeffs # ui.coeffs
  /\ ui'.coeffs # InlineCoeffs(ui'.parsed)
  /\ ~OneChipStepped

FromSolver ==
  /\ ui.hintUsed
  /\ ui'.eqn = ui.eqn
  /\ ~SolutionOfParsed(ui.parsed).isNull
  /\ ui'.coeffs.left = SolutionOfParsed(ui.parsed).left
  /\ ui'.coeffs.right = SolutionOfParsed(ui.parsed).right

====
